---- MODULE Spec2Model ----
(***************************************************************************)
(* Model of boone's Dispatcher (internal/boone/dispatch.go), its queue     *)
(* (third_party/github.com/sync/slice.go) and its debouncer                *)
(* (third_party/gist.github.com/time/time.go).                             *)
(*                                                                         *)
(* Goroutines modelled: the Watcher/startup producers that send on         *)
(* ExecReqCh, Ingress ("persistent goroutine 1 of 2"), the Runner          *)
(* ("persistent goroutine 2 of 2"), one Debounce worker per (target, path) *)
(* with its timer goroutines, the per-dequeue goroutines that send on      *)
(* runTargetCh, and the caller of Stop.                                    *)
(***************************************************************************)
EXTENDS Integers, Sequences, FiniteSets, TLC

\* Bound on the number of ExecRequest values sent on ExecReqCh.
MaxReq == 2

\* The same bound for behaviours in which Stop is never called.
MaxReqLive == 3

(***************************************************************************)
(* Configuration (the result of FinalizeConfig on three targets).          *)
(***************************************************************************)

\* cfg.Target, in config order.
TargetIds == <<"U", "D", "X">>

Targets == {TargetIds[i] : i \in 1..Len(TargetIds)}

\* Target.Upstream of every target: D is downstream of U, X stands alone.
Upstream == [U |-> <<>>, D |-> <<"U">>, X |-> <<>>]

\* Target.Handler: one entry per handler, holding len(handler.Exec).
Handler == [U |-> <<2, 1>>, D |-> <<1>>, X |-> <<1>>]

\* Target.debounce (parsed); every watched target debounces.
Debounce == [U |-> 1, D |-> 1, X |-> 1]

\* Paths on which each target's Watcher reports activity.
WatchPaths == [U |-> {"p", "q"}, D |-> {"p"}, X |-> {}]

\* Targets requested out-of-band at startup (AutoStartTarget / resume).
StartTargets == {"X"}

Range(s) == {s[i] : i \in 1..Len(s)}

\* The sequences of ss, one after the other.
RECURSIVE Flatten(_)
Flatten(ss) == IF ss = <<>> THEN <<>> ELSE Head(ss) \o Flatten(Tail(ss))

\* Target.Downstream: the other targets that list t in Upstream, config order.
Downstream(t) ==
    SelectSeq(TargetIds, LAMBDA o : o # t /\ t \in Range(Upstream[o]))

RECURSIVE VisitSeq(_, _)
\* VisitDownstream: pre-order walk; ds is the Downstream list being ranged.
VisitSeq(ds, fuel) ==
    IF ds = <<>> \/ fuel = 0 THEN <<>>
    ELSE <<Head(ds)>> \o VisitSeq(Downstream(Head(ds)), fuel - 1)
                      \o VisitSeq(Tail(ds), fuel)

VisitDownstream(t) == VisitSeq(Downstream(t), Len(TargetIds))

\* Target.Tree: the target itself followed by its downstream walk.
Tree(t) == <<t>> \o VisitDownstream(t)

(***************************************************************************)
(* ExecRequest values.                                                     *)
(***************************************************************************)

\* Requests a Watcher emits (watch.go): Debounce is the target's.
WatcherReqs ==
    UNION {{[id |-> 0, target |-> t, path |-> p, debounce |-> Debounce[t]] :
                p \in WatchPaths[t]} : t \in Targets}

\* Requests sent at startup (eval.go): no Event, Debounce left zero.
StartReqs ==
    {[id |-> 0, target |-> t, path |-> "", debounce |-> 0] : t \in StartTargets}

\* Keys of Dispatcher.debouncedRunner: target Id, then path.
DebounceKeys == {<<r.target, r.path>> : r \in WatcherReqs}

Key(r) == <<r.target, r.path>>

VARIABLES
    sent,           \* number of requests sent on ExecReqCh so far
    ExecReqCh,      \* buffered channel, capacity 1
    ingress,        \* Ingress goroutine: [pc, req]
    queue,          \* tp_sync.Slice items
    deb,            \* debouncedRunner: per key the worker's timer, timerEval, timerClear
    timerG,         \* goroutines spawned by Debounce when a timer is created
    senders,        \* goroutines blocked in "d.runTargetCh <- r"
    runTargetCh,    \* buffered channel, capacity 1
    runner,         \* Runner goroutine: [pc, req, ti, hi, ei]
    targetCtx,      \* Dispatcher.targetCtx: target Id -> context, 0 = no entry
    ctxDone,        \* live contexts that have been cancelled
    cmdErr,         \* cmdCtx.Err() of the exec in progress
    done,           \* Dispatcher.done is closed
    running,        \* requests whose runTarget call has not returned
    runLog,         \* statuses emitted by the current runTarget call
    pendingIds,     \* requests for which a Pending status was emitted
    inflight,       \* requests popped by the ticker and not yet run, in order
    started,        \* requests for which runTarget began
    burst,          \* per key: requests evaluated under the current timer
    unserved,       \* targets requested since their tree last started
    fs,             \* the filesystem: path -> "none", "file" or "dir"
    phase,          \* "off", "config" (before NewDispatcher) or "watching"
    globOut,        \* result of GetTargetGlob: one GlobAnyOutput per include
    include,        \* Watcher.include: path -> index of its Glob, 0 = no entry
    watched,        \* paths the filesystem monitor watches (AddPath)
    events,         \* events the monitor has yet to pass to Watcher.Event
    fsOps,          \* number of filesystem operations after startup
    handled,        \* the last Watcher.Event call and what it did
    panicCh,        \* Dispatcher.panicCh: buffered channel, capacity 1
    allTargets,     \* the []*Target that FinalizeConfig validates and finalizes
    config,         \* the Config: Global.Exclude, AutoStartTarget, startTarget
    finalizePc,     \* FinalizeConfig's position: "off", "input", "tree", "auto", "done", "error", "fatal"
    treeN,          \* index of the target whose Tree is being collected
    visitStack,     \* the VisitDownstream calls in progress: [t, k] per call
    pass,           \* how many times FinalizeConfig was applied
    resolved,       \* the targets as the first FinalizeConfig call left them
    file,           \* the session file's content
    sessPc,         \* the main command: "off", "start", "running", "panic",
                    \* "closepanic", "exited"
    resumeExecReq,  \* Handler.Run's resumeExecReq
    submitted,      \* requests Handler.Run has sent on dispatcher.ExecReqCh
    backing,        \* the array under UI.statusList
    listLen,        \* len(UI.statusList)
    sessionCh,      \* UI.sessionCh: buffered channel, capacity 1
    evalG,          \* Handler.Run's goroutine that saves sessions: [pc, msg, session]
    uiG,            \* UI.maintainStatusList: "select", "send" or "blocked"
    TargetStartCh,  \* Dispatcher.TargetStartCh: buffered channel, capacity 1
    TargetPassCh,   \* Dispatcher.TargetPassCh: buffered channel, capacity 1
    TargetFailCh,   \* Dispatcher.TargetFailCh: buffered channel, capacity 1
    exitCh,         \* UI.exitCh: buffered channel, capacity 1
    disp,           \* the Dispatcher as the UI sees it: [run, stopped, msgs]
    shut,           \* the shutdown: what called it, the run in progress then
    lastSession,    \* the last Session EncodeToFile wrote completely
    priorFile       \* the session file's content when the command started

\* The Dispatcher's variables and the Watcher's variables.
dvars == <<sent, ExecReqCh, ingress, queue, deb, timerG, senders, runTargetCh,
           runner, targetCtx, ctxDone, cmdErr, done, running, runLog,
           pendingIds, inflight, started, burst, unserved, panicCh>>

wvars == <<fs, phase, globOut, include, watched, events, fsOps, handled>>

\* FinalizeConfig's variables.
cvars == <<allTargets, config, finalizePc, treeN, visitStack, pass, resolved>>

\* The variables outside the Dispatcher and the Watcher.
\* The variables of the main command, the session file and the UI.
svars == <<file, sessPc, resumeExecReq, submitted, backing, listLen, sessionCh,
           evalG, uiG, TargetStartCh, TargetPassCh, TargetFailCh, exitCh, disp,
           shut, lastSession, priorFile>>

ovars == <<cvars, svars>>

vars == <<dvars, wvars, ovars>>

NoReq == [id |-> 0, target |-> "", path |-> "", debounce |-> 0]

IdleRunner == [pc |-> "select", req |-> NoReq, ti |-> 0, hi |-> 0, ei |-> 0]

DispatcherInit ==
    /\ sent = 0
    /\ ExecReqCh = <<>>
    /\ ingress = [pc |-> "select", req |-> NoReq]
    /\ queue = <<>>
    /\ deb = [k \in DebounceKeys |->
                [timer |-> FALSE, timerEval |-> <<>>, timerClear |-> 0]]
    /\ timerG = {}
    /\ senders = {}
    /\ runTargetCh = <<>>
    /\ runner = IdleRunner
    /\ targetCtx = [t \in Targets |-> 0]
    /\ ctxDone = {}
    /\ cmdErr = "none"
    /\ done = FALSE
    /\ running = {}
    /\ runLog = <<>>
    /\ pendingIds = {}
    /\ inflight = <<>>
    /\ started = {}
    /\ burst = [k \in DebounceKeys |-> <<>>]
    /\ unserved = {}
    /\ panicCh = <<>>

\* No Watcher is running: the Dispatcher is driven by the producers alone.
WatcherOff ==
    /\ fs = <<>>
    /\ phase = "off"
    /\ globOut = <<>>
    /\ include = <<>>
    /\ watched = {}
    /\ events = {}
    /\ fsOps = 0
    /\ handled = <<>>

\* FinalizeConfig is not running: the configuration above is its result.
ConfigOff ==
    /\ allTargets = <<>>
    /\ config = <<>>
    /\ finalizePc = "off"
    /\ treeN = 0
    /\ visitStack = <<>>
    /\ pass = 0
    /\ resolved = <<>>

\* No Session: what lastSession holds until EncodeToFile has run.
NoSession == [Statuses |-> <<>>, Version |-> -1]

\* A session the UI has sent: it shares the status list's array (alias)
\* and then holds its first len elements, or it holds what that array
\* held when the list moved to a new array (frozen).
SentSession(n) == [alias |-> TRUE, len |-> n, frozen |-> <<>>]

IdleEval == [pc |-> "select", msg |-> 0, session |-> SentSession(0)]

NoShutdown == [by |-> "", run |-> "", calm |-> FALSE, saved |-> FALSE]

\* The main command is not running.
SessionOff ==
    /\ file = <<>>
    /\ sessPc = "off"
    /\ resumeExecReq = <<>>
    /\ submitted = <<>>
    /\ backing = <<>>
    /\ listLen = 0
    /\ sessionCh = <<>>
    /\ evalG = IdleEval
    /\ uiG = "select"
    /\ TargetStartCh = <<>>
    /\ TargetPassCh = <<>>
    /\ TargetFailCh = <<>>
    /\ exitCh = 0
    /\ disp = [run |-> "", stopped |-> FALSE, msgs |-> 0]
    /\ shut = NoShutdown
    /\ lastSession = NoSession
    /\ priorFile = <<>>

OthersOff == ConfigOff /\ SessionOff

Init == DispatcherInit /\ WatcherOff /\ OthersOff

(***************************************************************************)
(* Contexts.                                                               *)
(***************************************************************************)

\* context.WithCancel(context.Background()) in runTarget: one per call.
TreeCtx(req) == req.id

\* Variant of TargetContext: each target stores a context of its own,
\* derived from treeCtx, whose cancel function does not cancel treeCtx.
TargetContextOwn(treeCtx, t) ==
    10 * treeCtx + CHOOSE i \in 1..Len(TargetIds) : TargetIds[i] = t

\* TargetContext{Ctx: treeCtx, Cancel: treeCancel} stored for target t.
TargetContext(treeCtx, t) == treeCtx

\* Entries of targetCtx (sync.Map keys).
CtxEntries == {t \in Targets : targetCtx[t] # 0}

\* c.Cancel() on every context in S; a running exec whose cmdCtx derives
\* from a cancelled treeCtx and is not yet done becomes "context canceled".
Cancel(S) ==
    /\ ctxDone' = ctxDone \cup S
    /\ cmdErr' = IF /\ runner.pc = "exec"
                    /\ cmdErr = "none"
                    /\ TreeCtx(runner.req) \in S
                 THEN "canceled" ELSE cmdErr

(***************************************************************************)
(* Producers: Watchers and the startup goroutine send on ExecReqCh.        *)
(***************************************************************************)

\* "ExecReqCh <- r" by a Watcher or by the startup goroutine; max bounds the
\* number of requests of the behaviour.
Send(r, max) ==
    /\ sent < max
    /\ Len(ExecReqCh) < 1
    /\ ExecReqCh' = Append(ExecReqCh, r)
    /\ sent' = sent + 1
    /\ UNCHANGED <<ingress, queue, deb, timerG, senders, runTargetCh, runner,
                   targetCtx, ctxDone, cmdErr, done, running, runLog,
                   pendingIds, inflight, started, burst, unserved>>
    /\ UNCHANGED <<panicCh, wvars, ovars>>

SendExecReq(r) == Send(r, MaxReq)

SendExecReqLive(r) == Send(r, MaxReqLive)

(***************************************************************************)
(* tp_sync.Slice.                                                          *)
(***************************************************************************)

\* Index (from 1) of the first queued request of the target, 0 if none:
\* the item at which the "range queue.Iter()" loop breaks.
FirstMatch(q, target) ==
    IF \E i \in 1..Len(q) : q[i].target = target
    THEN CHOOSE i \in 1..Len(q) :
            /\ q[i].target = target
            /\ \A j \in 1..(i - 1) : q[j].target # target
    ELSE 0

\* Slice.Delete(idx), idx counted from 1 here.
Delete(q, idx) ==
    IF idx > 0 /\ idx <= Len(q)
    THEN SubSeq(q, 1, idx - 1) \o SubSeq(q, idx + 1, Len(q))
    ELSE q

\* Slice.Iter: the iterating goroutine holds the lock and sends each item on
\* an unbuffered channel.  When the consumer stops receiving after item n,
\* the goroutine stays blocked on the send of item n+1 with the lock held,
\* unless n was the last item (then it closes the channel and unlocks).
IterKeepsLock(q, n) == n > 0 /\ n < Len(q)

\* The Slice's mutex is held forever by an abandoned Iter goroutine.
QueueLocked == ingress.pc = "blocked"

(***************************************************************************)
(* Ingress: persistent goroutine 1 of 2.                                   *)
(***************************************************************************)

\* Variant of IngressRecv: only the entry of the requested target itself is
\* looked up and cancelled, not those of the rest of req.Tree.
IngressRecvOwnTarget ==
    /\ ingress.pc = "select"
    /\ ExecReqCh # <<>>
    /\ LET req == [Head(ExecReqCh) EXCEPT !.id = sent - Len(ExecReqCh) + 1]
       IN /\ ExecReqCh' = Tail(ExecReqCh)
          /\ ingress' = [pc |-> "replace", req |-> req]
          /\ Cancel({targetCtx[t] : t \in {req.target} \cap CtxEntries})
          /\ unserved' = unserved \cup {req.target}
    /\ UNCHANGED <<sent, queue, deb, timerG, senders, runTargetCh, runner,
                   targetCtx, done, running, runLog, pendingIds, inflight,
                   started, burst>>
    /\ UNCHANGED <<panicCh, wvars, ovars>>

\* Variant of IngressRecv: the context of every entry of targetCtx is
\* cancelled, whether its target is in req.Tree or not.
IngressRecvCancelsAll ==
    /\ ingress.pc = "select"
    /\ ExecReqCh # <<>>
    /\ LET req == [Head(ExecReqCh) EXCEPT !.id = sent - Len(ExecReqCh) + 1]
       IN /\ ExecReqCh' = Tail(ExecReqCh)
          /\ ingress' = [pc |-> "replace", req |-> req]
          /\ Cancel({targetCtx[t] : t \in CtxEntries})
          /\ unserved' = unserved \cup {req.target}
    /\ UNCHANGED <<sent, queue, deb, timerG, senders, runTargetCh, runner,
                   targetCtx, done, running, runLog, pendingIds, inflight,
                   started, burst>>
    /\ UNCHANGED <<panicCh, wvars, ovars>>

\* case req := <-d.ExecReqCh: stamp RecvTime, then cancel the context of
\* every target of req.Tree that has an entry in targetCtx.
IngressRecv ==
    /\ ingress.pc = "select"
    /\ ExecReqCh # <<>>
    /\ LET req == [Head(ExecReqCh) EXCEPT !.id = sent - Len(ExecReqCh) + 1]
       IN /\ ExecReqCh' = Tail(ExecReqCh)
          /\ ingress' = [pc |-> "replace", req |-> req]
          /\ Cancel({targetCtx[t] : t \in Range(Tree(req.target)) \cap CtxEntries})
          /\ unserved' = unserved \cup {req.target}
    /\ UNCHANGED <<sent, queue, deb, timerG, senders, runTargetCh, runner,
                   targetCtx, done, running, runLog, pendingIds, inflight,
                   started, burst>>
    /\ UNCHANGED <<panicCh, wvars, ovars>>

\* Variant of IngressReplace: the pass leaves the queue as it is.
IngressReplaceKeepsAll ==
    /\ ingress.pc = "replace"
    /\ ingress' = [ingress EXCEPT !.pc = "debounce"]
    /\ queue' = queue
    /\ UNCHANGED <<sent, ExecReqCh, deb, timerG, senders, runTargetCh,
                   runner, targetCtx, ctxDone, cmdErr, done, running, runLog,
                   pendingIds, inflight, started, burst, unserved>>
    /\ UNCHANGED <<panicCh, wvars, ovars>>

\* for item := range queue.Iter() { if same TargetId { queue.Delete(n); break } }
IngressReplace ==
    /\ ingress.pc = "replace"
    /\ LET n == FirstMatch(queue, ingress.req.target)
       IN IF IterKeepsLock(queue, n)
          THEN /\ ingress' = [ingress EXCEPT !.pc = "blocked"]
               /\ queue' = queue
          ELSE /\ ingress' = [ingress EXCEPT !.pc = "debounce"]
               /\ queue' = Delete(queue, n)
    /\ UNCHANGED <<sent, ExecReqCh, deb, timerG, senders, runTargetCh,
                   runner, targetCtx, ctxDone, cmdErr, done, running, runLog,
                   pendingIds, inflight, started, burst, unserved>>
    /\ UNCHANGED <<panicCh, wvars, ovars>>

\* if req.Debounce > 0: create the debounced function when missing and call
\* it, which sends req on the worker's timerEval channel (capacity 1).
IngressDebounce ==
    /\ ingress.pc = "debounce"
    /\ ingress.req.debounce > 0
    /\ Len(deb[Key(ingress.req)].timerEval) < 1
    /\ deb' = [deb EXCEPT ![Key(ingress.req)].timerEval = Append(@, ingress.req)]
    /\ ingress' = [pc |-> "select", req |-> NoReq]
    /\ UNCHANGED <<sent, ExecReqCh, queue, timerG, senders, runTargetCh,
                   runner, targetCtx, ctxDone, cmdErr, done, running, runLog,
                   pendingIds, inflight, started, burst, unserved>>
    /\ UNCHANGED <<panicCh, wvars, ovars>>

\* else: enqueueStatus(req) directly: Pending status, then queue.Append.
IngressEnqueue ==
    /\ ingress.pc = "debounce"
    /\ ingress.req.debounce = 0
    /\ pendingIds' = pendingIds \cup {ingress.req.id}
    /\ queue' = Append(queue, ingress.req)
    /\ ingress' = [pc |-> "select", req |-> NoReq]
    /\ UNCHANGED <<sent, ExecReqCh, deb, timerG, senders, runTargetCh,
                   runner, targetCtx, ctxDone, cmdErr, done, running, runLog,
                   inflight, started, burst, unserved>>
    /\ UNCHANGED <<panicCh, wvars, ovars>>

\* case <-ticker.C: queue.PopFirst(), then "go func(r) { d.runTargetCh <- r }".
IngressTick ==
    /\ ingress.pc = "select"
    /\ queue # <<>>
    /\ queue' = Tail(queue)
    /\ senders' = senders \cup {Head(queue)}
    /\ inflight' = Append(inflight, Head(queue).id)
    /\ UNCHANGED <<sent, ExecReqCh, ingress, deb, timerG, runTargetCh,
                   runner, targetCtx, ctxDone, cmdErr, done, running, runLog,
                   pendingIds, started, burst, unserved>>
    /\ UNCHANGED <<panicCh, wvars, ovars>>

\* case <-d.done: return.  A select with several ready cases picks any.
IngressExit ==
    /\ ingress.pc = "select"
    /\ done
    /\ ingress' = [pc |-> "exited", req |-> NoReq]
    /\ UNCHANGED <<sent, ExecReqCh, queue, deb, timerG, senders, runTargetCh,
                   runner, targetCtx, ctxDone, cmdErr, done, running, runLog,
                   pendingIds, inflight, started, burst, unserved>>
    /\ UNCHANGED <<panicCh, wvars, ovars>>

\* The goroutine started at a dequeue completes "d.runTargetCh <- r".
SendRunTarget(r) ==
    /\ r \in senders
    /\ Len(runTargetCh) < 1
    /\ runTargetCh' = Append(runTargetCh, r)
    /\ senders' = senders \ {r}
    /\ UNCHANGED <<sent, ExecReqCh, ingress, queue, deb, timerG, runner,
                   targetCtx, ctxDone, cmdErr, done, running, runLog,
                   pendingIds, inflight, started, burst, unserved>>
    /\ UNCHANGED <<panicCh, wvars, ovars>>

(***************************************************************************)
(* tp_time.Debounce: one worker per key, one goroutine per timer.          *)
(***************************************************************************)

\* The timer started by the first request of the key's current burst has
\* not expired yet.
FirstTimerPending(k) ==
    /\ burst[k] # <<>>
    /\ \E g \in timerG : g.key = k /\ g.pc = "wait" /\ g.v.id = Head(burst[k])

BurstAfterEval(k, v, startsTimer) ==
    IF FirstTimerPending(k) THEN Append(burst[k], v.id)
    ELSE IF startsTimer THEN <<v.id>>
    ELSE burst[k]

\* Variant of WorkerEval: every evaluated value gets a timer goroutine of
\* its own, whether or not a timer is already set.
WorkerEvalAlwaysNewTimer(k) ==
    /\ deb[k].timerEval # <<>>
    /\ LET v == Head(deb[k].timerEval)
       IN /\ deb' = [deb EXCEPT ![k].timer = TRUE, ![k].timerEval = Tail(@)]
          /\ timerG' = timerG \cup {[key |-> k, v |-> v, pc |-> "wait"]}
          /\ burst' = [burst EXCEPT ![k] = BurstAfterEval(k, v, TRUE)]
    /\ UNCHANGED <<sent, ExecReqCh, ingress, queue, senders, runTargetCh,
                   runner, targetCtx, ctxDone, cmdErr, done, running, runLog,
                   pendingIds, inflight, started, unserved>>
    /\ UNCHANGED <<panicCh, wvars, ovars>>

\* case v := <-timerEval: create the timer and its goroutine when the timer
\* is nil, otherwise timer.Reset(interval).
WorkerEval(k) ==
    /\ deb[k].timerEval # <<>>
    /\ LET v == Head(deb[k].timerEval)
       IN IF ~deb[k].timer
          THEN /\ deb' = [deb EXCEPT ![k].timer = TRUE,
                                     ![k].timerEval = Tail(@)]
               /\ timerG' = timerG \cup {[key |-> k, v |-> v, pc |-> "wait"]}
               /\ burst' = [burst EXCEPT ![k] = BurstAfterEval(k, v, TRUE)]
          ELSE /\ deb' = [deb EXCEPT ![k].timerEval = Tail(@)]
               /\ timerG' = timerG
               /\ burst' = [burst EXCEPT ![k] = BurstAfterEval(k, v, FALSE)]
    /\ UNCHANGED <<sent, ExecReqCh, ingress, queue, senders, runTargetCh,
                   runner, targetCtx, ctxDone, cmdErr, done, running, runLog,
                   pendingIds, inflight, started, unserved>>
    /\ UNCHANGED <<panicCh, wvars, ovars>>

\* case <-timerClear: timer.Stop(); timer = nil.
WorkerClear(k) ==
    /\ deb[k].timerClear = 1
    /\ deb' = [deb EXCEPT ![k].timer = FALSE, ![k].timerClear = 0]
    /\ UNCHANGED <<sent, ExecReqCh, ingress, queue, timerG, senders,
                   runTargetCh, runner, targetCtx, ctxDone, cmdErr, done,
                   running, runLog, pendingIds, inflight, started, burst,
                   unserved>>
    /\ UNCHANGED <<panicCh, wvars, ovars>>

\* The timer expires: its goroutine returns from <-timer.C() and sends on
\* timerClear (capacity 1).
TimerExpire(g) ==
    /\ g \in timerG
    /\ g.pc = "wait"
    /\ deb[g.key].timerClear = 0
    /\ deb' = [deb EXCEPT ![g.key].timerClear = 1]
    /\ timerG' = (timerG \ {g}) \cup {[g EXCEPT !.pc = "f"]}
    /\ UNCHANGED <<sent, ExecReqCh, ingress, queue, senders, runTargetCh,
                   runner, targetCtx, ctxDone, cmdErr, done, running, runLog,
                   pendingIds, inflight, started, burst, unserved>>
    /\ UNCHANGED <<panicCh, wvars, ovars>>

\* f(v): "debounce settled", enqueueStatus(v): Pending status, then
\* queue.Append, which waits for the Slice's lock.
DebounceSettled(g) ==
    /\ g \in timerG
    /\ g.pc = "f"
    /\ pendingIds' = pendingIds \cup {g.v.id}
    /\ IF QueueLocked
       THEN /\ timerG' = (timerG \ {g}) \cup {[g EXCEPT !.pc = "append"]}
            /\ UNCHANGED queue
       ELSE /\ timerG' = timerG \ {g}
            /\ queue' = Append(queue, g.v)
    /\ UNCHANGED <<sent, ExecReqCh, ingress, deb, senders, runTargetCh,
                   runner, targetCtx, ctxDone, cmdErr, done, running, runLog,
                   inflight, started, burst, unserved>>
    /\ UNCHANGED <<panicCh, wvars, ovars>>

(***************************************************************************)
(* Runner: persistent goroutine 2 of 2, and runTarget.                     *)
(***************************************************************************)

\* A non-blocking send on a channel of capacity 1 (select with default).
Offer(ch, v) == IF ch = <<>> THEN <<v>> ELSE ch

\* Status / TargetPass / TreePass values sent on the status channels.
Status(c, t, h, e, err) == [c |-> c, t |-> t, h |-> h, e |-> e, err |-> err]

RunTree == Tree(runner.req.target)

CurTarget == RunTree[runner.ti]

\* Variant of FirstHandlerFrom: only the first handler of a target is run;
\* the target's later handlers are passed over.
FirstHandlerFromFirstOnly(t, h) ==
    IF h = 1 /\ Handler[t][1] > 0 THEN 1 ELSE 0

\* First handler of t, from index h on, that has an Exec to run; 0 if none.
FirstHandlerFrom(t, h) ==
    IF \E i \in h..Len(Handler[t]) : Handler[t][i] > 0
    THEN CHOOSE i \in h..Len(Handler[t]) :
            /\ Handler[t][i] > 0
            /\ \A j \in h..(i - 1) : Handler[t][j] = 0
    ELSE 0

\* Variant of Return: only the entry of the target whose portion ran last
\* is deleted.
ReturnDeletesLast(ctxmap, log) ==
    /\ runner' = IdleRunner
    /\ targetCtx' = [ctxmap EXCEPT ![CurTarget] = 0]
    /\ ctxDone' = {}
    /\ cmdErr' = "none"
    /\ running' = running \ {runner.req.id}
    /\ runLog' = log

\* runTarget returns: the deferred targetCtx.Delete of every target whose
\* portion began run, and the deferred treeCancel ends the run's contexts.
Return(ctxmap, log) ==
    /\ runner' = IdleRunner
    /\ targetCtx' = [t \in Targets |->
                        IF t \in {RunTree[i] : i \in 1..runner.ti}
                        THEN 0 ELSE ctxmap[t]]
    /\ ctxDone' = {}
    /\ cmdErr' = "none"
    /\ running' = running \ {runner.req.id}
    /\ runLog' = log

\* All handlers of the current target succeeded: TargetPass, then the next
\* target of the tree, or TreePass and return after the last one.
FinishTarget(ctxmap) ==
    LET log == Append(runLog, Status("targetpass", CurTarget, 0, 0, "")) IN
    IF runner.ti < Len(RunTree)
    THEN /\ runner' = [runner EXCEPT !.pc = "store", !.ti = @ + 1,
                                     !.hi = 0, !.ei = 0]
         /\ targetCtx' = ctxmap
         /\ runLog' = log
         /\ UNCHANGED <<ctxDone, cmdErr, running>>
    ELSE Return(ctxmap,
                Append(log, Status("treepass", runner.req.target, 0, 0, "")))

\* Variant of RunnerRecv: the request is taken from runTargetCh while an
\* earlier runTarget call has not returned ("go d.runTarget(req)").
RunnerRecvAsync ==
    /\ runner.pc \in {"select", "store", "start", "exec", "cooldown"}
    /\ runTargetCh # <<>>
    /\ runTargetCh' = Tail(runTargetCh)
    /\ runner' = [pc |-> "store", req |-> Head(runTargetCh),
                  ti |-> 1, hi |-> 0, ei |-> 0]
    /\ running' = running \cup {Head(runTargetCh).id}
    /\ started' = started \cup {Head(runTargetCh).id}
    /\ inflight' = SelectSeq(inflight, LAMBDA i : i # Head(runTargetCh).id)
    /\ unserved' = unserved \ {Head(runTargetCh).target}
    /\ runLog' = <<>>
    /\ UNCHANGED <<sent, ExecReqCh, ingress, queue, deb, timerG, senders,
                   targetCtx, ctxDone, cmdErr, done, pendingIds,
                   burst>>
    /\ UNCHANGED <<panicCh, wvars, ovars>>

\* case req := <-d.runTargetCh: d.runTarget(req), called synchronously.
RunnerRecv ==
    /\ runner.pc = "select"
    /\ runTargetCh # <<>>
    /\ runTargetCh' = Tail(runTargetCh)
    /\ runner' = [pc |-> "store", req |-> Head(runTargetCh),
                  ti |-> 1, hi |-> 0, ei |-> 0]
    /\ running' = running \cup {Head(runTargetCh).id}
    /\ started' = started \cup {Head(runTargetCh).id}
    /\ inflight' = SelectSeq(inflight, LAMBDA i : i # Head(runTargetCh).id)
    /\ unserved' = unserved \ {Head(runTargetCh).target}
    /\ runLog' = <<>>
    /\ UNCHANGED <<sent, ExecReqCh, ingress, queue, deb, timerG, senders,
                   targetCtx, ctxDone, cmdErr, done, pendingIds,
                   burst>>
    /\ UNCHANGED <<panicCh, wvars, ovars>>

\* case <-d.done: return.
RunnerExit ==
    /\ runner.pc = "select"
    /\ done
    /\ runner' = [runner EXCEPT !.pc = "exited"]
    /\ UNCHANGED <<sent, ExecReqCh, ingress, queue, deb, timerG, senders,
                   runTargetCh, targetCtx, ctxDone, cmdErr, done, running,
                   runLog, pendingIds, inflight, started, burst, unserved>>
    /\ UNCHANGED <<panicCh, wvars, ovars>>

\* d.targetCtx.Store(t.Id, ...) at the start of a target's portion.
RunnerStore ==
    /\ runner.pc = "store"
    /\ LET ctxmap == [targetCtx EXCEPT ![CurTarget] =
                        TargetContext(TreeCtx(runner.req), CurTarget)]
           h == FirstHandlerFrom(CurTarget, 1)
       IN IF h > 0
          THEN /\ runner' = [runner EXCEPT !.pc = "start", !.hi = h, !.ei = 1]
               /\ targetCtx' = ctxmap
               /\ UNCHANGED <<ctxDone, cmdErr, running, runLog>>
          ELSE FinishTarget(ctxmap)
    /\ UNCHANGED <<sent, ExecReqCh, ingress, queue, deb, timerG, senders,
                   runTargetCh, done, pendingIds, inflight, started, burst,
                   unserved>>
    /\ UNCHANGED <<panicCh, wvars, ovars>>

\* cmdCtx := context.WithTimeout(treeCtx, e.timeout); Started status;
\* d.Executor.Buffered(cmdCtx, cmds...) is entered.
RunnerStart ==
    /\ runner.pc = "start"
    /\ runner' = [runner EXCEPT !.pc = "exec"]
    /\ cmdErr' = IF TreeCtx(runner.req) \in ctxDone THEN "canceled" ELSE "none"
    /\ runLog' = Append(runLog,
                        Status("started", CurTarget, runner.hi, runner.ei, ""))
    /\ UNCHANGED <<sent, ExecReqCh, ingress, queue, deb, timerG, senders,
                   runTargetCh, targetCtx, ctxDone, done, running,
                   pendingIds, inflight, started, burst, unserved>>
    /\ UNCHANGED <<panicCh, wvars, ovars>>

\* The exec's own timeout expires while it runs: cmdCtx is done with
\* "context deadline exceeded" unless it was cancelled before.
ExecTimeout ==
    /\ runner.pc = "exec"
    /\ cmdErr = "none"
    /\ cmdErr' = "deadline"
    /\ UNCHANGED <<sent, ExecReqCh, ingress, queue, deb, timerG, senders,
                   runTargetCh, runner, targetCtx, ctxDone, done, running,
                   runLog, pendingIds, inflight, started, burst, unserved>>
    /\ UNCHANGED <<panicCh, wvars, ovars>>

\* Variant of ExecErr: the executor's own error is reported even when the
\* command context is done.
ExecErrExecutorOnly(res) ==
    IF res = "fail" THEN "exit status 1" ELSE "nil"

\* err of the exec as runTarget sees it: cmdCtx.Err() replaces the
\* executor's error when the context is done.
ExecErr(res) ==
    IF cmdErr = "canceled" THEN "context canceled"
    ELSE IF cmdErr = "deadline" THEN "context deadline exceeded"
    ELSE IF res = "fail" THEN "exit status 1"
    ELSE "nil"

\* Variant of RunnerExecReturn: after the Failed or Canceled status the loop
\* goes on to the cooldown and the next exec instead of returning.
RunnerExecReturnContinue(res) ==
    /\ runner.pc = "exec"
    /\ cmdErr # "none" => res = "fail"
    /\ runner' = [runner EXCEPT !.pc = "cooldown"]
    /\ runLog' = IF ExecErr(res) # "nil"
                 THEN Append(runLog,
                        Status(IF cmdErr # "none" THEN "canceled" ELSE "failed",
                               CurTarget, runner.hi, runner.ei, ExecErr(res)))
                 ELSE runLog
    /\ UNCHANGED <<targetCtx, ctxDone, cmdErr, running>>
    /\ UNCHANGED <<sent, ExecReqCh, ingress, queue, deb, timerG, senders,
                   runTargetCh, done, pendingIds, inflight, started, burst,
                   unserved>>
    /\ UNCHANGED <<panicCh, wvars, ovars>>

\* Executor.Buffered returns with result res.  On an error: Failed or
\* Canceled status and return.  Otherwise the cooldown sleep begins.
RunnerExecReturn(res) ==
    /\ runner.pc = "exec"
    /\ cmdErr # "none" => res = "fail"
    /\ IF ExecErr(res) # "nil"
       THEN Return(targetCtx,
                   Append(runLog,
                          Status(IF cmdErr # "none" THEN "canceled" ELSE "failed",
                                 CurTarget, runner.hi, runner.ei, ExecErr(res))))
       ELSE /\ runner' = [runner EXCEPT !.pc = "cooldown"]
            /\ UNCHANGED <<targetCtx, ctxDone, cmdErr, running, runLog>>
    /\ UNCHANGED <<sent, ExecReqCh, ingress, queue, deb, timerG, senders,
                   runTargetCh, done, pendingIds, inflight, started, burst,
                   unserved>>
    /\ UNCHANGED <<panicCh, wvars, ovars>>

\* time.Sleep(d.Cooldown) returns: next exec, next handler, or the end of
\* the target's portion.
RunnerCooldown ==
    /\ runner.pc = "cooldown"
    /\ IF runner.ei < Handler[CurTarget][runner.hi]
       THEN /\ runner' = [runner EXCEPT !.pc = "start", !.ei = @ + 1]
            /\ UNCHANGED <<targetCtx, ctxDone, cmdErr, running, runLog>>
       ELSE LET h == FirstHandlerFrom(CurTarget, runner.hi + 1) IN
            IF h > 0
            THEN /\ runner' = [runner EXCEPT !.pc = "start", !.hi = h, !.ei = 1]
                 /\ UNCHANGED <<targetCtx, ctxDone, cmdErr, running, runLog>>
            ELSE FinishTarget(targetCtx)
    /\ UNCHANGED <<sent, ExecReqCh, ingress, queue, deb, timerG, senders,
                   runTargetCh, done, pendingIds, inflight, started, burst,
                   unserved>>
    /\ UNCHANGED <<panicCh, wvars, ovars>>

\* Variant of RunnerPanic: the deferred targetCtx.Delete calls are not run.
RunnerPanicKeepsEntries ==
    /\ runner.pc = "start"
    /\ runner' = IdleRunner
    /\ ctxDone' = {}
    /\ cmdErr' = "none"
    /\ running' = running \ {runner.req.id}
    /\ UNCHANGED <<targetCtx, runLog>>
    /\ panicCh' = Offer(panicCh, "panic")
    /\ UNCHANGED <<sent, ExecReqCh, ingress, queue, deb, timerG, senders,
                   runTargetCh, done, pendingIds, inflight, started, burst,
                   unserved>>
    /\ UNCHANGED <<wvars, ovars>>

\* runTarget panics while it prepares an exec (the command's template does
\* not expand or the expanded command does not parse): the deferred calls
\* run as on a return, the recovered value is offered on panicCh, and
\* runTarget returns to the Runner's loop.
RunnerPanic ==
    /\ runner.pc = "start"
    /\ Return(targetCtx, runLog)
    /\ panicCh' = Offer(panicCh, "panic")
    /\ UNCHANGED <<sent, ExecReqCh, ingress, queue, deb, timerG, senders,
                   runTargetCh, done, pendingIds, inflight, started, burst,
                   unserved>>
    /\ UNCHANGED <<wvars, ovars>>

\* Handler.Run 292-294: the panic value is received and shutdown() calls
\* Dispatcher.Stop.
PanicRecv ==
    /\ panicCh # <<>>
    /\ ~done
    /\ panicCh' = <<>>
    /\ done' = TRUE
    /\ IF CtxEntries = {}
       THEN UNCHANGED <<ctxDone, cmdErr>>
       ELSE \E k \in CtxEntries : Cancel({targetCtx[k]})
    /\ UNCHANGED <<sent, ExecReqCh, ingress, queue, deb, timerG, senders,
                   runTargetCh, runner, targetCtx, running, runLog,
                   pendingIds, inflight, started, burst, unserved>>
    /\ UNCHANGED <<wvars, ovars>>

(***************************************************************************)
(* Stop.                                                                   *)
(***************************************************************************)

\* close(d.done), then targetCtx.Range with a callback that cancels the
\* entry it is given and returns false, which ends the Range after the
\* first entry (sync.Map visits entries in no particular order).
Stop ==
    /\ ~done
    /\ done' = TRUE
    /\ IF CtxEntries = {}
       THEN UNCHANGED <<ctxDone, cmdErr>>
       ELSE \E k \in CtxEntries : Cancel({targetCtx[k]})
    /\ UNCHANGED <<sent, ExecReqCh, ingress, queue, deb, timerG, senders,
                   runTargetCh, runner, targetCtx, running, runLog,
                   pendingIds, inflight, started, burst, unserved>>
    /\ UNCHANGED <<panicCh, wvars, ovars>>

(***************************************************************************)
(* The Watcher of one target (internal/boone/watch.go), the globs that     *)
(* decide what it watches (GetTargetGlob, GetGlobInclude) and the          *)
(* filesystem monitor that feeds it (cage/os/file/watcher/fsnotify.go).    *)
(***************************************************************************)

\* Bound on the number of filesystem operations after startup.
MaxFsOps == 2

\* A path is a sequence of names below the target's Root (<<>>); a name is
\* a stem and an extension, a pattern element a name with "*" for "any" or
\* the element "**" (any number of directories, none included).
N(stem, ext) == [stem |-> stem, ext |-> ext]

Root == <<>>

AnyDirs == N("**", "")

\* The files and directories that may exist below Root, with the kinds
\* each may have.
Kinds ==
    ( <<N("d", "")>> :> {"dir"}
   @@ <<N("d", ""), N("x", "go")>> :> {"file"}
   @@ <<N("d", ""), N("file", "go")>> :> {"file"}
   @@ <<N("e", "")>> :> {"dir"}
   @@ <<N("e", ""), N("m", "go")>> :> {"file", "dir"}
   @@ <<N("x", "go")>> :> {"file", "dir"}
   @@ <<N("x", "go"), N("m", "go")>> :> {"file"}
   @@ <<N("n", "txt")>> :> {"file"}
   @@ <<N("file", "txt")>> :> {"file"} )

Paths == DOMAIN Kinds

AllPaths == Paths \cup {Root}

Dir(p) == SubSeq(p, 1, Len(p) - 1)

\* Root exists and is a directory (FinalizeConfig verified it); any other
\* path exists only inside an existing directory.
KindOf(f, p) == IF p = Root THEN "dir" ELSE f[p]

ValidFs ==
    {f \in [Paths -> {"none", "file", "dir"}] :
        \A p \in Paths :
            f[p] # "none" => f[p] \in Kinds[p] /\ KindOf(f, Dir(p)) = "dir"}

\* Include and Exclude of the target after FinalizeConfig: Root defaults to
\* the target's Root and Pattern is joined onto it.
FinalizedGlob(root, pattern) == [Root |-> root, Pattern |-> root \o pattern]

Include == << FinalizedGlob(Root, <<AnyDirs, N("*", "go")>>),
              FinalizedGlob(Root, <<N("*", "txt")>>) >>

Exclude == << FinalizedGlob(Root, <<AnyDirs, N("file", "*")>>),
              FinalizedGlob(Root, <<N("x", "*")>>) >>

MatchName(pat, name) ==
    /\ pat.stem = "*" \/ pat.stem = name.stem
    /\ pat.ext = "*" \/ pat.ext = name.ext

RECURSIVE PathMatch(_, _)
\* The path matches the pattern, element by element.
PathMatch(pattern, p) ==
    IF pattern = <<>> THEN p = <<>>
    ELSE IF Head(pattern) = AnyDirs
         THEN \/ PathMatch(Tail(pattern), p)
              \/ p # <<>> /\ PathMatch(pattern, Tail(p))
    ELSE /\ p # <<>>
         /\ MatchName(Head(pattern), Head(p))
         /\ PathMatch(Tail(pattern), Tail(p))

\* Index of the first glob of globs whose pattern matches p; 0 if none.
FirstHit(globs, p) ==
    IF \E i \in 1..Len(globs) : PathMatch(globs[i].Pattern, p)
    THEN CHOOSE i \in 1..Len(globs) :
            /\ PathMatch(globs[i].Pattern, p)
            /\ \A j \in 1..(i - 1) : ~PathMatch(globs[j].Pattern, p)
    ELSE 0

\* cage_filepath.PathMatchAny: Match needs an include hit and no exclude
\* hit; Include and Exclude are the first hits in declaration order.
PathMatchAny(name, includes, excludes) ==
    [Match |-> FirstHit(includes, name) # 0 /\ FirstHit(excludes, name) = 0,
     Include |-> FirstHit(includes, name),
     Exclude |-> FirstHit(excludes, name)]

\* Target.MatchPath: all Include patterns against all Exclude patterns.
MatchPath(name) == PathMatchAny(name, Include, Exclude)

NoPaths == [p \in AllPaths |-> 0]

\* Keys of a map from paths to glob indexes (0 = no entry).
KeysOf(m) == {p \in AllPaths : m[p] # 0}

\* cage_filepath.GlobAny for the single include i: the existing paths that
\* match it, split into those no exclude matches (Include, mapped to i) and
\* those an exclude matches (Exclude, mapped to the first such exclude).
GlobAny(f, i, excludes) ==
    LET hit == {p \in AllPaths :
                    KindOf(f, p) # "none" /\ PathMatch(Include[i].Pattern, p)}
    IN [Include |-> [p \in AllPaths |->
                        IF p \in hit /\ FirstHit(excludes, p) = 0
                        THEN i ELSE 0],
        Exclude |-> [p \in AllPaths |->
                        IF p \in hit THEN FirstHit(excludes, p) ELSE 0]]

\* cage_filepath.FileAncestor: the directories from the parent of name up
\* to root, both included.
FileAncestor(name, root) ==
    {SubSeq(name, 1, k) : k \in Len(root)..(Len(name) - 1)}

\* Variant of TargetGlobOf: only the parent directory of each match is
\* added, not the directories above it.
TargetGlobOfParentOnly(f, i) ==
    LET out == GlobAny(f, i, Exclude)
        anc == {Dir(p) : p \in KeysOf(out.Include) \ {Root}}
        inc == [p \in AllPaths |-> IF p \in anc THEN i ELSE out.Include[p]]
    IN IF KeysOf(inc) = {} /\ KeysOf(out.Exclude) = {}
       THEN [out EXCEPT !.Include = [inc EXCEPT ![Include[i].Root] = i]]
       ELSE [out EXCEPT !.Include = inc]

\* Variant of TargetGlobOf: the root is not added when nothing matched.
TargetGlobOfNoRoot(f, i) ==
    LET out == GlobAny(f, i, Exclude)
        anc == UNION {FileAncestor(p, Include[i].Root) :
                        p \in KeysOf(out.Include)}
    IN [out EXCEPT !.Include =
            [p \in AllPaths |-> IF p \in anc THEN i ELSE out.Include[p]]]

\* One iteration of GetTargetGlob's loop, for include i: GlobAny, then the
\* ancestors of every included path, then the root itself when neither
\* Include nor Exclude has an entry.
TargetGlobOf(f, i) ==
    LET out == GlobAny(f, i, Exclude)
        anc == UNION {FileAncestor(p, Include[i].Root) :
                        p \in KeysOf(out.Include)}
        inc == [p \in AllPaths |-> IF p \in anc THEN i ELSE out.Include[p]]
    IN IF KeysOf(inc) = {} /\ KeysOf(out.Exclude) = {}
       THEN [out EXCEPT !.Include = [inc EXCEPT ![Include[i].Root] = i]]
       ELSE [out EXCEPT !.Include = inc]

\* GetTargetGlob(target.Include, target.Exclude): one output per include.
GetTargetGlob(f) == [i \in 1..Len(Include) |-> TargetGlobOf(f, i)]

\* GetGlobInclude: every included path with the first glob that covers it.
GetGlobInclude(globs) ==
    [p \in AllPaths |->
        IF \E i \in 1..Len(globs) : globs[i].Include[p] # 0
        THEN globs[CHOOSE i \in 1..Len(globs) :
                        /\ globs[i].Include[p] # 0
                        /\ \A j \in 1..(i - 1) : globs[j].Include[p] = 0].Include[p]
        ELSE 0]

\* A Watcher.Event call that has not happened, or that sent nothing.
NoEvent == [Path |-> Root, Op |-> ""]

Handled(e, exists, isDir, addPath, sendExecReq, inc) ==
    [event |-> e, exists |-> exists, isDir |-> isDir, addPath |-> addPath,
     sendExecReq |-> sendExecReq, Include |-> inc]

\* The configuration is read; NewDispatcher has not run yet.  The
\* filesystem below Root is any valid one.
InitWatch ==
    /\ DispatcherInit
    /\ OthersOff
    /\ fs \in ValidFs
    /\ phase = "config"
    /\ globOut = <<>>
    /\ include = NoPaths
    /\ watched = {}
    /\ events = {}
    /\ fsOps = 0
    /\ handled = Handled(NoEvent, FALSE, FALSE, FALSE, FALSE, 0)

\* NewDispatcher for the target: GetTargetGlob, GetGlobInclude, and, when
\* there are includes, a Watcher with SetInclude(includes) and AddPath for
\* every included path.
NewDispatcher ==
    /\ phase = "config"
    /\ phase' = "watching"
    /\ globOut' = GetTargetGlob(fs)
    /\ include' = GetGlobInclude(globOut')
    /\ watched' = KeysOf(include')
    /\ UNCHANGED <<fs, events, fsOps, handled>>
    /\ UNCHANGED <<dvars, ovars>>

\* The monitor reports an operation on p when p or its directory is
\* watched.
Reported(p) == p \in watched \/ Dir(p) \in watched

EventsAfter(p, op) ==
    IF Reported(p) THEN events \cup {[Path |-> p, Op |-> op]} ELSE events

\* A file or a directory is created at p.
FsCreate(p, kind) ==
    /\ phase = "watching"
    /\ fsOps < MaxFsOps
    /\ fs[p] = "none"
    /\ kind \in Kinds[p]
    /\ KindOf(fs, Dir(p)) = "dir"
    /\ fs' = [fs EXCEPT ![p] = kind]
    /\ events' = EventsAfter(p, "Create")
    /\ fsOps' = fsOps + 1
    /\ UNCHANGED <<phase, globOut, include, watched, handled>>
    /\ UNCHANGED <<dvars, ovars>>

\* The file at p is written.
FsWrite(p) ==
    /\ phase = "watching"
    /\ fsOps < MaxFsOps
    /\ fs[p] = "file"
    /\ events' = EventsAfter(p, "Write")
    /\ fsOps' = fsOps + 1
    /\ UNCHANGED <<fs, phase, globOut, include, watched, handled>>
    /\ UNCHANGED <<dvars, ovars>>

\* The file or empty directory at p is removed or renamed away (op); the
\* monitor's watch of p ends with it.
FsRemove(p, op) ==
    /\ phase = "watching"
    /\ fsOps < MaxFsOps
    /\ fs[p] # "none"
    /\ \A q \in Paths : Dir(q) = p => fs[q] = "none"
    /\ fs' = [fs EXCEPT ![p] = "none"]
    /\ events' = EventsAfter(p, op)
    /\ watched' = watched \ {p}
    /\ fsOps' = fsOps + 1
    /\ UNCHANGED <<phase, globOut, include, handled>>
    /\ UNCHANGED <<dvars, ovars>>

\* Variant of AddsPath: a new directory is watched only when it matches an
\* include pattern.
AddsPathOnMatch(isDir, matchRes) == isDir /\ matchRes.Match

\* Watcher.Event, Create of a directory whose parent is known: AddPath and
\* include.Store unless an exclude pattern matches the directory.
AddsPath(isDir, matchRes) ==
    isDir /\ (matchRes.Match \/ matchRes.Exclude = 0)

\* Variant of SendsExecReq: a created directory that matches triggers the
\* target like a created file.
SendsExecReqForDirs(op, isDir, found, matchRes) ==
    found /\ matchRes.Match

\* Watcher.Event, sendExecReq: a created file whose directory is in the
\* include map, or a written path that is in the include map, when
\* MatchPath matches.
SendsExecReq(op, isDir, found, matchRes) ==
    IF op = "Create" THEN found /\ ~isDir /\ matchRes.Match
    ELSE found /\ matchRes.Match

\* Watcher.Event(event).
WatcherEvent(e) ==
    /\ e \in events
    /\ events' = events \ {e}
    /\ LET exists == fs[e.Path] # "none"
           isDir == fs[e.Path] = "dir"
           matchRes == MatchPath(e.Path)
           key == IF e.Op = "Create" THEN Dir(e.Path) ELSE e.Path
           found == include[key] # 0
       IN IF e.Op \notin {"Write", "Create"} \/ ~exists \/ ~found
          THEN /\ handled' = Handled(e, exists, isDir, FALSE, FALSE, 0)
               /\ UNCHANGED <<include, watched>>
          ELSE /\ handled' = Handled(e, exists, isDir,
                                     e.Op = "Create" /\ AddsPath(isDir, matchRes),
                                     SendsExecReq(e.Op, isDir, found, matchRes),
                                     include[key])
               /\ watched' = IF e.Op = "Create" /\ AddsPath(isDir, matchRes)
                             THEN watched \cup {e.Path} ELSE watched
               /\ include' = IF e.Op = "Create"
                                /\ (AddsPath(isDir, matchRes) \/ ~isDir)
                             THEN [include EXCEPT ![e.Path] = include[key]]
                             ELSE include
    /\ UNCHANGED <<fs, phase, globOut, fsOps>>
    /\ UNCHANGED <<dvars, ovars>>

NextWatch ==
    \/ NewDispatcher
    \/ \E p \in Paths : \E kind \in {"file", "dir"} : FsCreate(p, kind)
    \/ \E p \in Paths : FsWrite(p)
    \/ \E p \in Paths : \E op \in {"Remove", "Rename"} : FsRemove(p, op)
    \/ \E e \in events : WatcherEvent(e)

\* The Watcher of one target and the filesystem it watches.
SpecWatch == InitWatch /\ [][NextWatch]_vars

(***************************************************************************)
(* FinalizeConfig (internal/boone/config.go) and VisitDownstream on the    *)
(* targets read from a configuration file.                                 *)
(***************************************************************************)

\* Bound on the nested VisitDownstream calls a goroutine's stack can hold.
MaxDepth == 5

\* The working directory, and the directories that exist.
Cwd == <<"/", "w">>

Dirs == {Cwd, Cwd \o <<"r">>}

\* filepath.IsAbs, filepath.Abs, and cage_file.Exists with fi.IsDir().
IsAbs(p) == p # <<>> /\ p[1] = "/"

Abs(p) == IF IsAbs(p) THEN p ELSE Cwd \o p

IsDir(p) == p \in Dirs

\* cage_filepath.Append: the second path joined onto the first.
AppendPath(a, b) == a \o (IF IsAbs(b) THEN Tail(b) ELSE b)

\* strings.HasPrefix on paths.
HasPrefix(p, q) == Len(q) <= Len(p) /\ SubSeq(p, 1, Len(q)) = q

\* cage_filepath.Glob as the configuration file gives it.
Glob(root, pattern) == [Root |-> root, Pattern |-> pattern]

\* The Id generated for a target that has none.
AutoId(label, root) == <<"auto-generated Id: ", label, root>>

\* Roots, globs and handler commands of a configuration; every target of a
\* configuration uses the same ones.
PathCases ==
    { [Root |-> <<>>, Include |-> <<>>, Exclude |-> <<>>,
       Global |-> <<>>, Exec |-> <<>>],
      [Root |-> <<"r">>, Include |-> <<Glob(<<>>, <<"*.go">>)>>,
       Exclude |-> <<>>, Global |-> <<>>, Exec |-> <<>>],
      [Root |-> <<>>, Include |-> <<Glob(<<>>, <<"*.go">>)>>,
       Exclude |-> <<>>, Global |-> <<>>, Exec |-> <<>>],
      [Root |-> <<"r">>, Include |-> <<>>, Exclude |-> <<>>,
       Global |-> <<Glob(<<>>, <<"tmp">>)>>, Exec |-> <<>>],
      [Root |-> <<"r">>, Include |-> <<>>, Exclude |-> <<>>,
       Global |-> <<>>, Exec |-> <<[Dir |-> <<>>]>>] }

\* Target.Id of the three targets of a configuration, by position.
IdChoices(pc) ==
    << {<<"x">>}, {<<"y">>, <<"x">>, <<>>},
       {<<"z">>, <<>>, AutoId("b", Abs(pc.Root))} >>

LabelChoices == << {"a"}, {"a", "b"}, {"b", "c"} >>

\* Number of handlers of the three targets, by position.
HandlerChoices == << {0, 1}, {0, 1}, {1} >>

UpstreamChoices ==
    { <<>>, << <<"x">> >>, << <<"y">> >>, << <<"x">>, <<"y">> >>,
      << <<"x">>, <<"x">> >> }

\* Config.AutoStartTarget.
AutoStartTarget == << <<"y">> >>

NewTarget(pc, id, label, handlers, upstream) ==
    [Label |-> label, Id |-> id, Root |-> pc.Root, Upstream |-> upstream,
     Handler |-> [h \in 1..handlers |-> pc.Exec],
     Include |-> pc.Include, Exclude |-> pc.Exclude,
     Downstream |-> <<>>, Tree |-> <<>>]

NewConfig(pc) ==
    [Global |-> [Exclude |-> pc.Global],
     AutoStartTarget |-> AutoStartTarget, startTarget |-> <<>>]

\* A configuration file was unmarshalled; FinalizeConfig has not run yet.
ReadConfigFile ==
    \E pc \in PathCases :
      \E id1 \in IdChoices(pc)[1], id2 \in IdChoices(pc)[2],
         id3 \in IdChoices(pc)[3] :
        \E l1 \in LabelChoices[1], l2 \in LabelChoices[2],
           l3 \in LabelChoices[3] :
          \E h1 \in HandlerChoices[1], h2 \in HandlerChoices[2],
             h3 \in HandlerChoices[3] :
            \E u1, u2, u3 \in UpstreamChoices :
              /\ allTargets = << NewTarget(pc, id1, l1, h1, u1),
                                 NewTarget(pc, id2, l2, h2, u2),
                                 NewTarget(pc, id3, l3, h3, u3) >>
              /\ config = NewConfig(pc)

\* Include and Exclude globs (lines 229-268 and 283-322): the check of one
\* glob against the target's root, and its resolution.
GlobError(g, root) ==
    \/ g.Root # <<>> /\ (IsAbs(g.Root) \/ ~IsDir(AppendPath(root, g.Root)))
    \/ g.Pattern = <<>>
    \/ IsAbs(g.Pattern)

ResolveGlob(g, root) ==
    LET r == IF g.Root = <<>> THEN root ELSE AppendPath(root, g.Root)
    IN  [Root |-> r, Pattern |-> AppendPath(r, g.Pattern)]

\* The first loop over the targets (lines 165-335).
FirstPassError(t, cfg) ==
    LET root == Abs(t.Root)
        excl == t.Exclude \o cfg.Global.Exclude
    IN  \/ t.Root = <<>> /\ Len(t.Include) > 0
        \/ t.Label = ""
        \/ ~IsDir(root)
        \/ \E k \in 1..Len(t.Include) : GlobError(t.Include[k], root)
        \/ \E k \in 1..Len(cfg.Global.Exclude) :
              IsAbs(cfg.Global.Exclude[k].Pattern)
        \/ \E k \in 1..Len(excl) : GlobError(excl[k], root)
        \/ \E k \in 1..Len(t.Include) :
              ~HasPrefix(ResolveGlob(t.Include[k], root).Root, root)
        \/ \E k \in 1..Len(excl) :
              ~HasPrefix(ResolveGlob(excl[k], root).Root, root)

FirstPass(t, cfg) ==
    LET root == Abs(t.Root)
        excl == t.Exclude \o
                  [k \in 1..Len(cfg.Global.Exclude) |->
                     Glob(<<>>, cfg.Global.Exclude[k].Pattern)]
    IN  [t EXCEPT
           !.Root = root,
           !.Id = IF t.Id = <<>> THEN AutoId(t.Label, root) ELSE t.Id,
           !.Include = [k \in 1..Len(t.Include) |->
                          ResolveGlob(t.Include[k], root)],
           !.Exclude = [k \in 1..Len(excl) |-> ResolveGlob(excl[k], root)]]

\* uniqueLabel (lines 212-215).
DuplicateLabel(all) ==
    \E i, j \in 1..Len(all) : i < j /\ all[i].Label = all[j].Label

\* The second loop (lines 337-375): Exec.Dir of every handler command.
SecondPassError(t) ==
    \E h \in 1..Len(t.Handler) : \E e \in 1..Len(t.Handler[h]) :
       /\ t.Handler[h][e].Dir # <<>>
       /\ ~IsDir(AppendPath(t.Root, t.Handler[h][e].Dir))

SecondPass(t) ==
    [t EXCEPT !.Handler =
       [h \in 1..Len(t.Handler) |-> [e \in 1..Len(t.Handler[h]) |->
          [Dir |-> IF t.Handler[h][e].Dir = <<>> THEN t.Root
                   ELSE AppendPath(t.Root, t.Handler[h][e].Dir)]]]]

\* Variant of DownstreamFrom: only the first Upstream entry of a target counts.
RECURSIVE DownstreamFromFirstUpstream(_, _, _)
DownstreamFromFirstUpstream(all, n, o) ==
    IF o > Len(all) THEN <<>>
    ELSE (IF /\ all[o].Id # all[n].Id
             /\ all[o].Upstream # <<>>
             /\ all[o].Upstream[1] = all[n].Id
          THEN <<o>> ELSE <<>>)
         \o DownstreamFromFirstUpstream(all, n, o + 1)

\* Target.Downstream of target n (lines 380-390): the targets from position
\* o on, once per entry of their Upstream that equals n's Id.
RECURSIVE DownstreamFrom(_, _, _)
DownstreamFrom(all, n, o) ==
    IF o > Len(all) THEN <<>>
    ELSE (IF all[o].Id = all[n].Id THEN <<>>
          ELSE [i \in 1..Cardinality({k \in 1..Len(all[o].Upstream) :
                                        all[o].Upstream[k] = all[n].Id})
                  |-> o])
         \o DownstreamFrom(all, n, o + 1)

\* Lines 396-398.
NoHandlerNoDownstream(t) == Len(t.Handler) = 0 /\ Len(t.Downstream) = 0

\* Variant of DuplicateId: no Id is taken for a duplicate.
DuplicateIdNever(all) == FALSE

\* uniqueTargetId (lines 401-408).
DuplicateId(all) ==
    \E i, j \in 1..Len(all) : i < j /\ all[i].Id = all[j].Id

\* FinalizeConfig up to the point where the trees are collected.
FinalizeConfig ==
    /\ finalizePc = "input"
    /\ LET n == Len(allTargets)
           p1 == [k \in 1..n |-> FirstPass(allTargets[k], config)]
           p2 == [k \in 1..n |-> SecondPass(p1[k])]
           p3 == [k \in 1..n |->
                    [p2[k] EXCEPT !.Downstream = DownstreamFrom(p2, k, 1)]]
           err == \/ \E k \in 1..n : FirstPassError(allTargets[k], config)
                  \/ DuplicateLabel(allTargets)
                  \/ \E k \in 1..n : SecondPassError(p1[k])
                  \/ \E k \in 1..n : NoHandlerNoDownstream(p3[k])
                  \/ DuplicateId(p3)
       IN  IF err
           THEN finalizePc' = "error" /\ UNCHANGED allTargets
           ELSE finalizePc' = "tree" /\ allTargets' = p3
    /\ treeN' = 0
    /\ visitStack' = <<>>
    /\ UNCHANGED <<config, pass, resolved, dvars, wvars, svars>>

\* The record a Tree holds for a target (lines 414-418 and 423-427).
TargetTree(t) == [Id |-> t.Id, Label |-> t.Label, Handler |-> t.Handler]

\* The VisitDownstream calls that have not returned: a call returns when
\* its range over t.Downstream is exhausted.
RECURSIVE Unwind(_, _)
Unwind(all, st) ==
    IF st = <<>> THEN st
    ELSE LET top == st[Len(st)]
         IN  IF top.k > Len(all[top.t].Downstream)
             THEN Unwind(all, SubSeq(st, 1, Len(st) - 1))
             ELSE st

\* Lines 410-420: the Tree of the next target starts with the target
\* itself, and VisitDownstream is called on it.
TreeStart ==
    /\ finalizePc = "tree"
    /\ visitStack = <<>>
    /\ treeN < Len(allTargets)
    /\ treeN' = treeN + 1
    /\ allTargets' = [allTargets EXCEPT
                        ![treeN + 1].Tree = <<TargetTree(allTargets[treeN + 1])>>]
    /\ visitStack' = Unwind(allTargets, <<[t |-> treeN + 1, k |-> 1]>>)
    /\ UNCHANGED <<config, finalizePc, pass, resolved, dvars, wvars, svars>>

\* One iteration of VisitDownstream's loop: visit(d) appends d's record to
\* the Tree being collected, then VisitDownstream(d, visit) is called.
Visit ==
    /\ finalizePc = "tree"
    /\ visitStack # <<>>
    /\ Len(visitStack) < MaxDepth
    /\ LET top == visitStack[Len(visitStack)]
           d == allTargets[top.t].Downstream[top.k]
       IN  /\ allTargets' = [allTargets EXCEPT
                               ![treeN].Tree = Append(@, TargetTree(allTargets[d]))]
           /\ visitStack' =
                Unwind(allTargets,
                       Append([visitStack EXCEPT ![Len(visitStack)].k = @ + 1],
                              [t |-> d, k |-> 1]))
    /\ UNCHANGED <<config, finalizePc, treeN, pass, resolved, dvars, wvars, svars>>

\* The nested calls exceed the stack: the runtime ends the process.
StackOverflow ==
    /\ finalizePc = "tree"
    /\ Len(visitStack) >= MaxDepth
    /\ finalizePc' = "fatal"
    /\ UNCHANGED <<allTargets, config, treeN, visitStack, pass, resolved,
                   dvars, wvars, svars>>

\* Lines 436-445: the auto-start targets, then FinalizeConfig returns.
FinalizeAutoStart ==
    /\ finalizePc = "tree"
    /\ visitStack = <<>>
    /\ treeN = Len(allTargets)
    /\ LET ids == config.AutoStartTarget
           valid == \A k \in 1..Len(ids) :
                       \E n \in 1..Len(allTargets) : allTargets[n].Id = ids[k]
       IN  IF valid
           THEN /\ finalizePc' = "done"
                /\ config' = [config EXCEPT !.startTarget =
                     [k \in 1..Len(ids) |->
                        CHOOSE n \in 1..Len(allTargets) :
                          allTargets[n].Id = ids[k]]]
                /\ resolved' = IF pass = 1 THEN allTargets ELSE resolved
           ELSE /\ finalizePc' = "error"
                /\ UNCHANGED <<config, resolved>>
    /\ UNCHANGED <<allTargets, treeN, visitStack, pass, dvars, wvars, svars>>

\* FinalizeConfig is applied to the configuration it has finalized.
FinalizeAgain ==
    /\ finalizePc = "done"
    /\ pass = 1
    /\ pass' = 2
    /\ finalizePc' = "input"
    /\ UNCHANGED <<allTargets, config, treeN, visitStack, resolved,
                   dvars, wvars, svars>>

InitConfig ==
    /\ DispatcherInit
    /\ WatcherOff
    /\ ReadConfigFile
    /\ finalizePc = "input"
    /\ treeN = 0
    /\ visitStack = <<>>
    /\ pass = 1
    /\ resolved = <<>>
    /\ SessionOff

NextConfig ==
    \/ FinalizeConfig
    \/ TreeStart
    \/ Visit
    \/ StackOverflow
    \/ FinalizeAutoStart
    \/ FinalizeAgain

SpecConfig == InitConfig /\ [][NextConfig]_vars

(***************************************************************************)
(* The session file (internal/cage/encoding/gob/gob.go), the startup and   *)
(* shutdown logic of the main command (cmd/boone/eval/eval.go), and the    *)
(* UI's status list (UI.maintainStatusList, UI.renderStatusList).          *)
(***************************************************************************)

\* Bound on the Pending and Started statuses the Dispatcher emits.
MaxMsgs == 2

\* Targets whose statuses the Dispatcher emits while the UI runs.
UiTargets == {"U", "X"}

Causes == {"started", "pending", "resumed", "failed", "canceled"}

\* boone.Status, reduced to the fields the session logic reads.
NewStatus(t, cause) == [TargetId |-> t, Cause |-> cause]

\* boone.Session as renderStatusList creates it: Version is left zero.
NewSession(sts) == [Statuses |-> sts, Version |-> 0]

\* The gob stream of a Session, one element per message the Encoder
\* writes: the type descriptors, then the value (Version, the number of
\* Statuses, and the fields of every Status).
Encode(s) ==
    << <<"T">>,
       <<"V", s.Version, Len(s.Statuses)>> \o
         Flatten([i \in 1..Len(s.Statuses) |->
                    <<s.Statuses[i].TargetId, s.Statuses[i].Cause>>]) >>

\* A file that holds the whole stream of a Session and nothing else.
FileOf(s) == Flatten(Encode(s))

\* Variant of Overwrite: the file is opened with O_APPEND.
OverwriteAtEnd(f, off, data) == f \o data

\* A Write at offset off of a file opened with O_WRONLY|O_CREATE: the
\* bytes under the data are replaced, the rest of the file stays.
Overwrite(f, off, data) ==
    [i \in 1..(IF Len(f) > off + Len(data) THEN Len(f) ELSE off + Len(data))
       |-> IF i > off /\ i <= off + Len(data) THEN data[i - off] ELSE f[i]]

DecodeError == [ok |-> FALSE, session |-> NoSession]

\* DecodeFromFile and Decoder.Decode: the type descriptors, then the first
\* value of the stream; a stream that ends early is an error.
Decode(f) ==
    IF Len(f) < 4 THEN DecodeError
    ELSE IF f[1] # "T" \/ f[2] # "V" \/ Len(f) < 4 + 2 * f[4] THEN DecodeError
    ELSE [ok |-> TRUE,
          session |-> [Version |-> f[3],
                       Statuses |-> [i \in 1..f[4] |->
                          NewStatus(f[3 + 2 * i], f[4 + 2 * i])]]]

\* Variant of Resumes: only a Started status is resumed.
ResumesStartedOnly(cause) == cause = "started"

\* eval.go 247-249 and 255: Resumed and Pending count as Started, and a
\* Started status is resumed.
Resumes(cause) == cause \in {"started", "pending", "resumed"}

\* eval.go 242-276: the statuses that seed the UI.
RECURSIVE SeedStatusList(_)
SeedStatusList(sts) ==
    IF sts = <<>> THEN <<>>
    ELSE LET status == Head(sts)
             valid == status.TargetId \in Targets
         IN  (IF valid
              THEN <<NewStatus(status.TargetId,
                               IF Resumes(status.Cause) THEN "resumed"
                               ELSE status.Cause)>>
              ELSE <<>>)
             \o SeedStatusList(Tail(sts))

\* An ExecRequest sent at startup, with the fields the Dispatcher reads.
StartupReq(cause, t) == [Cause |-> cause, TargetId |-> t, Tree |-> Tree(t)]

\* eval.go 242-276: the requests that resume the targets of the session.
RECURSIVE ResumeExecReq(_)
ResumeExecReq(sts) ==
    IF sts = <<>> THEN <<>>
    ELSE LET status == Head(sts)
         IN  (IF status.TargetId \in Targets /\ Resumes(status.Cause)
              THEN <<StartupReq("resume", status.TargetId)>>
              ELSE <<>>)
             \o ResumeExecReq(Tail(sts))

\* cfg.GetStartTarget(), in config order, as requests.
StartExecReq ==
    LET ids == SelectSeq(TargetIds, LAMBDA t : t \in StartTargets)
    IN  [i \in 1..Len(ids) |-> StartupReq("start", ids[i])]

View(s) == IF s.alias THEN SubSeq(backing, 1, s.len) ELSE s.frozen

Freeze(s) == [alias |-> FALSE, len |-> s.len, frozen |-> View(s)]

\* UI.statusList.
StatusList == SubSeq(backing, 1, listLen)

\* Handler.Run 211-282: the session file is decoded when it is not empty,
\* the UI is seeded, and UI.Start renders the seeded list, which sends the
\* first Session.
Startup ==
    /\ sessPc = "start"
    /\ IF file = <<>>
       THEN /\ sessPc' = "running"
            /\ backing' = <<>>
            /\ resumeExecReq' = <<>>
       ELSE IF ~Decode(file).ok
       THEN /\ sessPc' = "panic"
            /\ UNCHANGED <<backing, resumeExecReq>>
       ELSE /\ sessPc' = "running"
            /\ backing' = SeedStatusList(Decode(file).session.Statuses)
            /\ resumeExecReq' = ResumeExecReq(Decode(file).session.Statuses)
    /\ listLen' = Len(backing')
    /\ sessionCh' = IF sessPc' = "running"
                    THEN <<SentSession(listLen')>> ELSE <<>>
    /\ UNCHANGED <<file, submitted, evalG, uiG, TargetStartCh, TargetPassCh,
                   TargetFailCh, exitCh, disp, shut, lastSession, priorFile,
                   dvars, wvars, cvars>>

\* Handler.Run 324-336: the next request is sent on dispatcher.ExecReqCh,
\* the start targets first, then the resumed ones.
SubmitExecReq ==
    /\ sessPc = "running"
    /\ Len(submitted) < Len(StartExecReq \o resumeExecReq)
    /\ submitted' =
         Append(submitted, (StartExecReq \o resumeExecReq)[Len(submitted) + 1])
    /\ UNCHANGED <<file, sessPc, resumeExecReq, backing, listLen, sessionCh,
                   evalG, uiG, TargetStartCh, TargetPassCh, TargetFailCh,
                   exitCh, disp, shut, lastSession, priorFile,
                   dvars, wvars, cvars>>

\* Sessions of at most two statuses, as an earlier run may have left them:
\* of target U and of a target that is not in the configuration any more.
PriorSessions ==
    LET S == {NewStatus(t, c) : t \in {"U", "gone"}, c \in Causes}
    IN  {NewSession(<<>>)} \cup {NewSession(<<a>>) : a \in S}
          \cup {NewSession(<<a, b>>) : a, b \in S}

\* FinalizeConfig has created the session file if it did not exist; the
\* file is empty, holds a session, or holds the start of a stream.
InitStartup ==
    /\ DispatcherInit
    /\ WatcherOff
    /\ ConfigOff
    /\ file \in {<<>>, <<"T">>} \cup {FileOf(s) : s \in PriorSessions}
    /\ priorFile = file
    /\ sessPc = "start"
    /\ resumeExecReq = <<>>
    /\ submitted = <<>>
    /\ backing = <<>>
    /\ listLen = 0
    /\ sessionCh = <<>>
    /\ evalG = IdleEval
    /\ uiG = "select"
    /\ TargetStartCh = <<>>
    /\ TargetPassCh = <<>>
    /\ TargetFailCh = <<>>
    /\ exitCh = 0
    /\ disp = [run |-> "", stopped |-> FALSE, msgs |-> 0]
    /\ shut = NoShutdown
    /\ lastSession = NoSession

NextStartup ==
    \/ Startup
    \/ SubmitExecReq

SpecStartup == InitStartup /\ [][NextStartup]_vars

\* Ingress: a request was queued and its Pending status is offered.
EmitPending(t) ==
    /\ sessPc = "running"
    /\ ~disp.stopped
    /\ disp.msgs < MaxMsgs
    /\ TargetStartCh' = Offer(TargetStartCh, NewStatus(t, "pending"))
    /\ disp' = [disp EXCEPT !.msgs = @ + 1]
    /\ UNCHANGED <<file, sessPc, resumeExecReq, submitted, backing, listLen,
                   sessionCh, evalG, uiG, TargetPassCh, TargetFailCh, exitCh,
                   shut, lastSession, priorFile, dvars, wvars, cvars>>

\* runTarget: the Runner starts a target and offers its Started status.
EmitStarted(t) ==
    /\ sessPc = "running"
    /\ ~disp.stopped
    /\ disp.run = ""
    /\ disp.msgs < MaxMsgs
    /\ TargetStartCh' = Offer(TargetStartCh, NewStatus(t, "started"))
    /\ disp' = [disp EXCEPT !.msgs = @ + 1, !.run = t]
    /\ UNCHANGED <<file, sessPc, resumeExecReq, submitted, backing, listLen,
                   sessionCh, evalG, uiG, TargetPassCh, TargetFailCh, exitCh,
                   shut, lastSession, priorFile, dvars, wvars, cvars>>

\* runTarget: the commands of the running target succeeded. After
\* Dispatcher.Stop the target's context is canceled and its run ends with
\* EmitFail.
EmitPass ==
    /\ sessPc = "running"
    /\ ~disp.stopped
    /\ disp.run # ""
    /\ TargetPassCh' = Offer(TargetPassCh, disp.run)
    /\ disp' = [disp EXCEPT !.run = ""]
    /\ UNCHANGED <<file, sessPc, resumeExecReq, submitted, backing, listLen,
                   sessionCh, evalG, uiG, TargetStartCh, TargetFailCh, exitCh,
                   shut, lastSession, priorFile, dvars, wvars, cvars>>

\* runTarget: a command of the running target failed, or its context was
\* canceled (by file activity or by Dispatcher.Stop).
EmitFail ==
    /\ sessPc = "running"
    /\ disp.run # ""
    /\ \E cause \in IF disp.stopped THEN {"canceled"}
                    ELSE {"failed", "canceled"} :
         TargetFailCh' = Offer(TargetFailCh, NewStatus(disp.run, cause))
    /\ disp' = [disp EXCEPT !.run = ""]
    /\ UNCHANGED <<file, sessPc, resumeExecReq, submitted, backing, listLen,
                   sessionCh, evalG, uiG, TargetStartCh, TargetPassCh, exitCh,
                   shut, lastSession, priorFile, dvars, wvars, cvars>>

\* The position of the first status of target t in list, 0 if none.
FindTarget(list, t) ==
    IF \E i \in 1..Len(list) : list[i].TargetId = t
    THEN CHOOSE i \in 1..Len(list) :
           /\ list[i].TargetId = t
           /\ \A j \in 1..(i - 1) : list[j].TargetId # t
    ELSE 0

\* The main command has called shutdown(): the tview application stopped.
Stopped == shut.by # ""

\* renderStatusList, up to its send: QueueUpdateDraw returns, or does not
\* once the application has stopped.
Rendered == IF Stopped THEN {"send", "blocked"} ELSE {"send"}

\* maintainStatusList's insertItem: the status replaces the target's item
\* in place, or is prepended, which moves the list to a new array.
InsertItem(status) ==
    /\ LET targetPos == FindTarget(StatusList, status.TargetId)
       IN  IF targetPos = 0
           THEN /\ backing' = <<status>> \o StatusList
                /\ listLen' = listLen + 1
                /\ sessionCh' =
                     [i \in 1..Len(sessionCh) |-> Freeze(sessionCh[i])]
                /\ evalG' = IF evalG.pc = "write"
                            THEN [evalG EXCEPT !.session = Freeze(@)]
                            ELSE evalG
           ELSE /\ backing' = [backing EXCEPT ![targetPos] = status]
                /\ UNCHANGED <<listLen, sessionCh, evalG>>
    /\ uiG' \in Rendered

\* maintainStatusList, case targetStartCh.
UIStart ==
    /\ sessPc = "running"
    /\ uiG = "select"
    /\ TargetStartCh # <<>>
    /\ TargetStartCh' = <<>>
    /\ InsertItem(Head(TargetStartCh))
    /\ UNCHANGED <<file, sessPc, resumeExecReq, submitted, TargetPassCh,
                   TargetFailCh, exitCh, disp, shut, lastSession, priorFile,
                   dvars, wvars, cvars>>

\* append(list[:foundPos], list[foundPos+1:]...): the items after foundPos
\* move one place down in the same array, whose last cell keeps its value.
RemoveAt(arr, n, foundPos) ==
    [i \in 1..Len(arr) |->
       IF i >= foundPos /\ i < n THEN arr[i + 1] ELSE arr[i]]

\* maintainStatusList, case targetPassCh.
UIPass ==
    /\ sessPc = "running"
    /\ uiG = "select"
    /\ TargetPassCh # <<>>
    /\ TargetPassCh' = <<>>
    /\ LET foundPos == FindTarget(StatusList, Head(TargetPassCh))
       IN  IF foundPos > 0
           THEN /\ backing' = RemoveAt(backing, listLen, foundPos)
                /\ listLen' = listLen - 1
                /\ uiG' \in Rendered
           ELSE UNCHANGED <<backing, listLen, uiG>>
    /\ UNCHANGED <<file, sessPc, resumeExecReq, submitted, sessionCh, evalG,
                   TargetStartCh, TargetFailCh, exitCh, disp, shut,
                   lastSession, priorFile, dvars, wvars, cvars>>

\* maintainStatusList, case targetFailCh.
UIFail ==
    /\ sessPc = "running"
    /\ uiG = "select"
    /\ TargetFailCh # <<>>
    /\ TargetFailCh' = <<>>
    /\ LET status == Head(TargetFailCh)
           pending == \E i \in 1..listLen :
                        /\ backing[i].TargetId = status.TargetId
                        /\ backing[i].Cause = "pending"
       IN  IF ~pending
           THEN InsertItem(status)
           ELSE UNCHANGED <<backing, listLen, sessionCh, evalG, uiG>>
    /\ UNCHANGED <<file, sessPc, resumeExecReq, submitted, TargetStartCh,
                   TargetPassCh, exitCh, disp, shut, lastSession, priorFile,
                   dvars, wvars, cvars>>

\* renderStatusList's send: u.sessionCh <- Session{Statuses: u.statusList}.
UISend ==
    /\ sessPc = "running"
    /\ uiG = "send"
    /\ sessionCh = <<>>
    /\ sessionCh' = <<SentSession(listLen)>>
    /\ uiG' = "select"
    /\ UNCHANGED <<file, sessPc, resumeExecReq, submitted, backing, listLen,
                   evalG, TargetStartCh, TargetPassCh, TargetFailCh, exitCh,
                   disp, shut, lastSession, priorFile, dvars, wvars, cvars>>

\* Handler.Run 295-308: a Session is received from ui.SessionCh().
EvalSession ==
    /\ sessPc = "running"
    /\ evalG.pc = "select"
    /\ sessionCh # <<>>
    /\ evalG' = [pc |-> "write", msg |-> 1, session |-> Head(sessionCh)]
    /\ sessionCh' = <<>>
    /\ UNCHANGED <<file, sessPc, resumeExecReq, submitted, backing, listLen,
                   uiG, TargetStartCh, TargetPassCh, TargetFailCh, exitCh,
                   disp, shut, lastSession, priorFile, dvars, wvars, cvars>>

\* EncodeToFile: the file is opened without O_TRUNC and the Encoder writes
\* one message per Write call, the value as the Session reads when it is
\* encoded.
EvalWrite ==
    /\ sessPc = "running"
    /\ evalG.pc = "write"
    /\ LET s == NewSession(View(evalG.session))
       IN  IF evalG.msg = 1
           THEN /\ file' = Overwrite(file, 0, Encode(s)[1])
                /\ evalG' = [evalG EXCEPT !.msg = 2]
                /\ UNCHANGED lastSession
           ELSE /\ file' = Overwrite(file, Len(Encode(s)[1]), Encode(s)[2])
                /\ evalG' = IdleEval
                /\ lastSession' = s
    /\ UNCHANGED <<sessPc, resumeExecReq, submitted, backing, listLen,
                   sessionCh, uiG, TargetStartCh, TargetPassCh, TargetFailCh,
                   exitCh, disp, shut, priorFile,
                   dvars, wvars, cvars>>

\* The session file holds a status of target t that the next startup
\* resumes.
FileResumes(t) ==
    /\ Decode(file).ok
    /\ \E i \in 1..Len(Decode(file).session.Statuses) :
         /\ Decode(file).session.Statuses[i].TargetId = t
         /\ Resumes(Decode(file).session.Statuses[i].Cause)

\* Nothing is on its way from the Dispatcher to the session file.
Calm ==
    /\ TargetStartCh = <<>>
    /\ TargetPassCh = <<>>
    /\ TargetFailCh = <<>>
    /\ sessionCh = <<>>
    /\ evalG.pc = "select"
    /\ uiG = "select"

\* Handler.Run 284-287: shutdown() is dispatcher.Stop() and ui.Stop().
Shutdown(by) ==
    /\ disp' = [disp EXCEPT !.stopped = TRUE]
    /\ shut' = IF Stopped THEN shut
               ELSE [by |-> by, run |-> disp.run, calm |-> Calm,
                     saved |-> disp.run # "" /\ FileResumes(disp.run)]

\* InputCapture: Ctrl-C or 'q' sends on UI.exitCh.
ExitKey ==
    /\ sessPc = "running"
    /\ ~Stopped
    /\ exitCh = 0
    /\ exitCh' = 1
    /\ UNCHANGED <<file, sessPc, resumeExecReq, submitted, backing, listLen,
                   sessionCh, evalG, uiG, TargetStartCh, TargetPassCh,
                   TargetFailCh, disp, shut, lastSession, priorFile,
                   dvars, wvars, cvars>>

\* Handler.Run 309-318: the ExitCh case shuts down and ends the goroutine
\* that saves sessions. When shutdown() has run before, Dispatcher.Stop
\* closes d.done a second time (dispatch.go 307): the goroutine panics with
\* "close of closed channel" and nothing recovers it.
EvalExit ==
    /\ sessPc = "running"
    /\ evalG.pc = "select"
    /\ exitCh = 1
    /\ exitCh' = 0
    /\ IF Stopped
       THEN /\ sessPc' = "closepanic"
            /\ UNCHANGED <<disp, shut, evalG>>
       ELSE /\ Shutdown("key")
            /\ evalG' = [evalG EXCEPT !.pc = "returned"]
            /\ UNCHANGED sessPc
    /\ UNCHANGED <<file, resumeExecReq, submitted, backing, listLen,
                   sessionCh, uiG, TargetStartCh, TargetPassCh, TargetFailCh,
                   lastSession, priorFile, dvars, wvars, cvars>>

\* Handler.Run 338-343: SIGINT or SIGTERM calls shutdown(); the goroutine
\* that saves sessions keeps running.
Signal ==
    /\ sessPc = "running"
    /\ ~Stopped
    /\ Shutdown("signal")
    /\ UNCHANGED <<file, sessPc, resumeExecReq, submitted, backing, listLen,
                   sessionCh, evalG, uiG, TargetStartCh, TargetPassCh,
                   TargetFailCh, exitCh, lastSession, priorFile,
                   dvars, wvars, cvars>>

\* Handler.Run 345-354: ui.Start() has returned and, SigKillDelay later,
\* so does Run.
ProcessExit ==
    /\ sessPc = "running"
    /\ Stopped
    /\ sessPc' = "exited"
    /\ UNCHANGED <<file, resumeExecReq, submitted, backing, listLen,
                   sessionCh, evalG, uiG, TargetStartCh, TargetPassCh,
                   TargetFailCh, exitCh, disp, shut, lastSession, priorFile,
                   dvars, wvars, cvars>>

\* Session files of earlier runs the main command is started on.
SmallPriors ==
    {<<>>,
     <<"T">>,
     FileOf(NewSession(<<NewStatus("U", "failed"),
                         NewStatus("gone", "started")>>))}

InitSession == InitStartup /\ file \in SmallPriors

NextSession ==
    \/ Startup
    \/ \E t \in UiTargets : EmitPending(t)
    \/ \E t \in UiTargets : EmitStarted(t)
    \/ EmitPass
    \/ EmitFail
    \/ UIStart
    \/ UIPass
    \/ UIFail
    \/ UISend
    \/ EvalSession
    \/ EvalWrite
    \/ EvalExit
    \/ ExitKey
    \/ Signal
    \/ ProcessExit

SpecSession == InitSession /\ [][NextSession]_vars

Next ==
    \/ \E r \in WatcherReqs \cup StartReqs : SendExecReq(r)
    \/ IngressRecv
    \/ IngressReplace
    \/ IngressDebounce
    \/ IngressEnqueue
    \/ IngressTick
    \/ IngressExit
    \/ \E r \in senders : SendRunTarget(r)
    \/ \E k \in DebounceKeys : WorkerEval(k)
    \/ \E k \in DebounceKeys : WorkerClear(k)
    \/ \E g \in timerG : TimerExpire(g)
    \/ \E g \in timerG : DebounceSettled(g)
    \/ RunnerRecv
    \/ RunnerExit
    \/ RunnerStore
    \/ RunnerStart
    \/ ExecTimeout
    \/ \E res \in {"ok", "fail"} : RunnerExecReturn(res)
    \/ RunnerCooldown
    \/ Stop

Spec == Init /\ [][Next]_vars

\* The dispatcher while Stop is not called.
NextLive ==
    \/ \E r \in WatcherReqs \cup StartReqs : SendExecReqLive(r)
    \/ IngressRecv
    \/ IngressReplace
    \/ IngressDebounce
    \/ IngressEnqueue
    \/ IngressTick
    \/ \E r \in senders : SendRunTarget(r)
    \/ \E k \in DebounceKeys : WorkerEval(k)
    \/ \E k \in DebounceKeys : WorkerClear(k)
    \/ \E g \in timerG : TimerExpire(g)
    \/ \E g \in timerG : DebounceSettled(g)
    \/ RunnerRecv
    \/ RunnerStore
    \/ RunnerStart
    \/ ExecTimeout
    \/ \E res \in {"ok", "fail"} : RunnerExecReturn(res)
    \/ RunnerCooldown

SpecLive == Init /\ [][NextLive]_vars

\* The dispatcher with panics in runTarget and the main command's reaction.
NextPanic ==
    \/ \E r \in WatcherReqs \cup StartReqs : SendExecReq(r)
    \/ IngressRecv
    \/ IngressReplace
    \/ IngressDebounce
    \/ IngressEnqueue
    \/ IngressTick
    \/ IngressExit
    \/ \E r \in senders : SendRunTarget(r)
    \/ \E k \in DebounceKeys : WorkerEval(k)
    \/ \E k \in DebounceKeys : WorkerClear(k)
    \/ \E g \in timerG : TimerExpire(g)
    \/ \E g \in timerG : DebounceSettled(g)
    \/ RunnerRecv
    \/ RunnerExit
    \/ RunnerStore
    \/ RunnerStart
    \/ ExecTimeout
    \/ \E res \in {"ok", "fail"} : RunnerExecReturn(res)
    \/ RunnerCooldown
    \/ Stop
    \/ RunnerPanic
    \/ PanicRecv

SpecPanic == Init /\ [][NextPanic]_vars

(***************************************************************************)
(* Steps and states the properties refer to.                               *)
(***************************************************************************)

\* The step in which Ingress receives a request from ExecReqCh.
IngressRecvStep == ingress.pc = "select" /\ ingress'.pc = "replace"

\* The step in which Ingress leaves the queue-replacement pass.
IngressReplaceStep == ingress.pc = "replace" /\ ingress'.pc # "replace"

\* The step in which the Runner begins runTarget for a received request.
RunnerRecvStep == runner.pc = "select" /\ runner'.pc = "store"

\* The step in which the Runner emits Started and invokes the executor.
RunnerStartStep == runner.pc = "start" /\ runner'.pc = "exec"

\* The step in which the executor returns to runTarget.
ExecReturnStep == runner.pc = "exec" /\ runner'.pc # "exec"

\* The step in which Stop is called and returns.
StopStep == ~done /\ done'

\* A runTarget call has not returned.
InRun == runner.pc \in {"store", "start", "exec", "cooldown"}

\* A runTarget call is past the Store of its first target.
RunStarted ==
    \/ runner.pc \in {"start", "exec", "cooldown"}
    \/ runner.pc = "store" /\ runner.ti > 1

(***************************************************************************)
(* Properties.                                                             *)
(***************************************************************************)

\* C1: at most one tree run is in progress at any time; the run in progress
\* is the one the Runner is executing, so runs of two requests never overlap.
C1_OneTreeRunAtATime ==
    /\ Cardinality(running) <= 1
    /\ InRun => running = {runner.req.id}
    /\ ~InRun => running = {}

\* C1 witness: a run is executing an exec while the next dequeued request
\* waits in runTargetCh.
C1_RunWhileNextWaits ==
    /\ runner.pc = "exec"
    /\ runTargetCh # <<>>
    /\ Head(runTargetCh).id # runner.req.id

\* C2 (as claimed): once a run has begun its first target, a request received
\* by Ingress for any target of the running tree cancels the run's context.
C2_RequestForTreeMemberCancelsRun ==
    [][(IngressRecvStep /\ RunStarted
            /\ ingress'.req.target \in Range(RunTree))
        => TreeCtx(runner.req) \in ctxDone']_vars

C4_OlderQueuedRequestRemoved ==
    [][IngressReplaceStep
        => \A i \in 1..Len(queue') :
              ~(/\ queue'[i].target = ingress.req.target
                /\ queue'[i].id < ingress.req.id)]_vars

\* Requests of the current burst of key k: those the worker evaluated from
\* the start of a timer until that timer expired.
BurstIds(k) == Range(burst[k])

\* The timer of key k's current burst has expired and f has returned.
BurstSettled(k) ==
    /\ burst[k] # <<>>
    /\ \A g \in timerG : g.key = k => g.v.id \notin BurstIds(k)

\* Nothing is in flight between ExecReqCh and the Runner.
Quiescent ==
    /\ ExecReqCh = <<>>
    /\ ingress.pc = "select"
    /\ \A k \in DebounceKeys : deb[k].timerEval = <<>> /\ deb[k].timerClear = 0
    /\ timerG = {}
    /\ queue = <<>>
    /\ senders = {}
    /\ runTargetCh = <<>>

OnItsWay(t) ==
    \/ \E i \in 1..Len(ExecReqCh) : ExecReqCh[i].target = t
    \/ ingress.pc \in {"replace", "debounce"} /\ ingress.req.target = t
    \/ \E k \in DebounceKeys : k[1] = t /\ deb[k].timerEval # <<>>
    \/ \E g \in timerG : g.key[1] = t /\ g.pc \in {"wait", "f"}
    \/ /\ \E i \in 1..Len(queue) : queue[i].target = t
       /\ ingress.pc \in {"select", "replace", "debounce"}
    \/ \E r \in senders : r.target = t
    \/ \E i \in 1..Len(runTargetCh) : runTargetCh[i].target = t

\* C6 (as claimed, in the form a finite run refutes): while the dispatcher
\* is not stopped, a target that was requested and whose tree has not
\* started since still has a request on its way to a run.
C6_RequestedTargetStaysOnItsWay ==
    ~done => \A t \in unserved : OnItsWay(t)

\* C7: a Failed or Canceled status is the last status of its run, the run
\* has ended with it, and the run emitted no TargetPass for that target and
\* no TreePass.
C7_FailFast ==
    \A i \in 1..Len(runLog) :
        runLog[i].c \in {"failed", "canceled"}
            => /\ i = Len(runLog)
               /\ ~InRun
               /\ \A j \in 1..Len(runLog) :
                     /\ runLog[j].c # "treepass"
                     /\ ~(runLog[j].c = "targetpass" /\ runLog[j].t = runLog[i].t)

\* C7 witness: the first exec of U's first handler failed; its second exec,
\* U's second handler and the downstream target D were not started.
C7_FirstExecFailed ==
    /\ runLog = <<Status("started", "U", 1, 1, ""),
                  Status("failed", "U", 1, 1, "exit status 1")>>
    /\ runner.pc = "select"
    /\ targetCtx = [t \in Targets |-> 0]

\* C8 (as claimed): the request whose run starts is the oldest dequeued
\* request that has not run yet.
C8_RunsStartInDequeueOrder ==
    [][RunnerRecvStep => runner'.req.id = Head(inflight)]_vars

\* C9 (as claimed): once Stop has returned the Runner starts no run and no
\* exec, and Ingress receives no request.
C9_NothingStartsAfterStop ==
    [][done => ~RunnerRecvStep /\ ~RunnerStartStep /\ ~IngressRecvStep]_vars

\* C10: when Stop returns, the context of every entry of targetCtx is
\* cancelled and the command context of an exec in flight is done.
C10_StopCancelsEveryEntry ==
    [][StopStep
        => /\ \A t \in CtxEntries : targetCtx[t] \in ctxDone'
           /\ runner.pc = "exec" => cmdErr' # "none"]_vars

\* C10 witness: Stop was called while the only request ever sent was
\* running its second target; both entries' context is cancelled and the
\* exec in flight is aborted.
C10_StoppedDuringSecondTarget ==
    /\ done
    /\ sent = 1
    /\ runner.pc = "exec"
    /\ runner.ti = 2
    /\ Cardinality(CtxEntries) = 2
    /\ \A t \in CtxEntries : targetCtx[t] \in ctxDone
    /\ cmdErr = "canceled"

\* C11 (as claimed): once the tree context of a run is cancelled, the run
\* emits no later Started status and does not invoke the executor again,
\* also when the cancel came after an earlier exec of the run had returned.
C11_NoExecStartsAfterCancel ==
    [][(RunnerStartStep /\ runLog # <<>>)
        => TreeCtx(runner.req) \notin ctxDone]_vars

\* C12: when an exec returns with its command context done, the status is
\* Canceled with the context's error ("context canceled" only if the tree
\* context was cancelled, "context deadline exceeded" for the exec's own
\* timeout); otherwise an executor error gives Failed; each of them ends
\* the run, and an exec without error emits nothing and goes on.
C12_StatusOfReturnedExec ==
    [][ExecReturnStep =>
        /\ cmdErr = "canceled" =>
              /\ TreeCtx(runner.req) \in ctxDone
              /\ runLog' = Append(runLog,
                    Status("canceled", CurTarget, runner.hi, runner.ei,
                           "context canceled"))
              /\ runner' = IdleRunner
        /\ cmdErr = "deadline" =>
              /\ runLog' = Append(runLog,
                    Status("canceled", CurTarget, runner.hi, runner.ei,
                           "context deadline exceeded"))
              /\ runner' = IdleRunner
        /\ cmdErr = "none" =>
              \/ /\ runLog' = Append(runLog,
                       Status("failed", CurTarget, runner.hi, runner.ei,
                              "exit status 1"))
                 /\ runner' = IdleRunner
              \/ /\ runLog' = runLog
                 /\ runner'.pc = "cooldown"]_vars

\* C12 witness: the only exec of X ran into its own timeout; the run ended
\* with a Canceled status carrying "context deadline exceeded".
C12_ExecTimedOut ==
    /\ runLog = <<Status("started", "X", 1, 1, ""),
                  Status("canceled", "X", 1, 1, "context deadline exceeded")>>
    /\ runner = IdleRunner
    /\ running = {}

\* Started statuses of handler h of target t, in exec order.
ExecLog(t, h) ==
    [e \in 1..Handler[t][h] |-> Status("started", t, h, e, "")]

RECURSIVE HandlersLog(_, _)
\* Started statuses of the handlers of t from index h on, in handler order.
HandlersLog(t, h) ==
    IF h > Len(Handler[t]) THEN <<>>
    ELSE ExecLog(t, h) \o HandlersLog(t, h + 1)

RECURSIVE TreeLog(_, _)
\* Statuses of the targets of tree from index i on, each target's Started
\* statuses followed by its TargetPass.
TreeLog(tree, i) ==
    IF i > Len(tree) THEN <<>>
    ELSE HandlersLog(tree[i], 1)
            \o <<Status("targetpass", tree[i], 0, 0, "")>>
            \o TreeLog(tree, i + 1)

\* Statuses of a run for target T in which every exec succeeds.
SuccessLog(T) == TreeLog(Tree(T), 1) \o <<Status("treepass", T, 0, 0, "")>>

IsPrefix(s, t) == Len(s) <= Len(t) /\ SubSeq(t, 1, Len(s)) = s

\* C13: the statuses of a run are a prefix of the statuses of the fully
\* successful run of its tree (every TargetPass after all Started statuses
\* of its target, in tree order, TreePass with the request's target id
\* last), or such a prefix that ends with a Started status followed by
\* that exec's single Failed or Canceled status, which ends the run.
C13_PassesOnlyAfterSuccess ==
    \E T \in Targets :
        /\ InRun => T = runner.req.target
        /\ \/ IsPrefix(runLog, SuccessLog(T))
           \/ /\ Len(runLog) >= 2
              /\ ~InRun
              /\ LET front == SubSeq(runLog, 1, Len(runLog) - 1)
                     last == runLog[Len(runLog)]
                     exec == front[Len(front)]
                 IN /\ IsPrefix(front, SuccessLog(T))
                    /\ last.c \in {"failed", "canceled"}
                    /\ exec.c = "started"
                    /\ <<last.t, last.h, last.e>> = <<exec.t, exec.h, exec.e>>

\* C13 witness: the run of tree(U) = <<U, D>> passed every exec and ended
\* with TargetPass U, TargetPass D and TreePass U.
C13_WholeTreePassed ==
    /\ runLog = SuccessLog("U")
    /\ Len(runLog) = 7
    /\ runner = IdleRunner

\* The step in which Watcher.Event handles an event, and that event.
WatcherEventStep == events' # events /\ events' \subseteq events

\* The step in which NewDispatcher sets the Watcher up.
NewDispatcherStep == phase = "config" /\ phase' = "watching"

\* Some include pattern matches p and no exclude pattern does.
IncludedNotExcluded(p) ==
    /\ \E i \in 1..Len(Include) : PathMatch(Include[i].Pattern, p)
    /\ \A j \in 1..Len(Exclude) : ~PathMatch(Exclude[j].Pattern, p)

C15_NewDirWatchedNotTriggered ==
    [][WatcherEventStep =>
        LET e == handled'.event
            known == include[Dir(e.Path)] # 0
        IN /\ (e.Op = "Create" /\ fs[e.Path] = "dir" /\ known)
                => /\ ~handled'.sendExecReq
                   /\ (\A j \in 1..Len(Exclude) :
                            ~PathMatch(Exclude[j].Pattern, e.Path))
                        => /\ e.Path \in watched'
                           /\ include'[e.Path] = include[Dir(e.Path)]
           /\ (e.Op = "Create" /\ fs[e.Path] = "file" /\ known
                 /\ IncludedNotExcluded(e.Path))
                => /\ handled'.sendExecReq
                   /\ handled'.Include = include[Dir(e.Path)]]_vars

\* C15 witness: directory e was created after startup and is now watched;
\* the file e/m.go created in it afterwards sent an ExecRequest.
C15_FileInNewDirSentRequest ==
    /\ phase = "watching"
    /\ GetGlobInclude(globOut)[<<N("e", "")>>] = 0
    /\ <<N("e", "")>> \in watched
    /\ handled.event = [Path |-> <<N("e", ""), N("m", "go")>>, Op |-> "Create"]
    /\ handled.sendExecReq

\* C16 (as claimed): when, as the first change after startup, a file is
\* created whose path matches an include pattern and no exclude pattern,
\* the monitor reports the creation to the Watcher, in whatever directory
\* below the root the file is created.
C16_MatchingFileCreationReported ==
    [][\A p \in Paths :
        (fsOps = 0 /\ fs[p] = "none" /\ fs'[p] = "file"
            /\ IncludedNotExcluded(p))
        => [Path |-> p, Op |-> "Create"] \in events']_vars

\* C17 (as claimed): the Include of an ExecRequest is the first include, in
\* declaration order, whose pattern matches the event's path.
C17_RequestCarriesMatchingInclude ==
    handled.sendExecReq
        => handled.Include = FirstHit(Include, handled.event.Path)

\* C18: in every GlobAnyOutput of GetTargetGlob, for each path of Include,
\* every directory from the include's root down to the path's parent is a
\* key of Include too, with the same include.
C18_AncestorsIncluded ==
    phase = "watching" =>
        \A i \in 1..Len(globOut) :
            \A p \in KeysOf(globOut[i].Include) :
                /\ globOut[i].Include[p] = i
                /\ \A k \in Len(Include[i].Root)..(Len(p) - 1) :
                      globOut[i].Include[SubSeq(p, 1, k)] = i

\* C18 witness: d/x.go is included by the first include, and with it its
\* parent d and the root.
C18_ParentAndRootIncluded ==
    /\ phase = "watching"
    /\ globOut[1].Include[<<N("d", ""), N("x", "go")>>] = 1
    /\ globOut[1].Include[<<N("d", "")>>] = 1
    /\ globOut[1].Include[Root] = 1

\* C19 (as claimed): a path that matches the include pattern and an exclude
\* pattern is a key of Exclude and not of Include, and Include and Exclude
\* have no key in common.
C19_IncludeExcludeDisjoint ==
    [][NewDispatcherStep =>
        \A i \in 1..Len(Include) :
            /\ \A p \in AllPaths :
                  (/\ KindOf(fs, p) # "none"
                   /\ PathMatch(Include[i].Pattern, p)
                   /\ \E j \in 1..Len(Exclude) : PathMatch(Exclude[j].Pattern, p))
                  => /\ globOut'[i].Exclude[p] # 0
                     /\ globOut'[i].Include[p] = 0
            /\ KeysOf(globOut'[i].Include) \cap KeysOf(globOut'[i].Exclude) = {}]_vars

\* No existing path matches include i.
NothingMatches(f, i) ==
    \A p \in AllPaths :
        KindOf(f, p) # "none" => ~PathMatch(Include[i].Pattern, p)

\* Every existing path that matches include i matches an exclude as well.
EveryMatchExcluded(f, i) ==
    \A p \in AllPaths :
        (KindOf(f, p) # "none" /\ PathMatch(Include[i].Pattern, p))
            => \E j \in 1..Len(Exclude) : PathMatch(Exclude[j].Pattern, p)

\* The Include mapping { root -> include i }.
RootOnly(i) == [NoPaths EXCEPT ![Include[i].Root] = i]

\* C20 (as claimed): for an include with no path left in Include, because
\* nothing matches it or because every match is excluded, GetTargetGlob
\* returns Include = { root -> include }.
C20_RootIncludedWhenNoPathIncluded ==
    [][NewDispatcherStep =>
        \A i \in 1..Len(Include) :
            EveryMatchExcluded(fs, i) => globOut'[i].Include = RootOnly(i)]_vars

\* C20 (amended): for an include that nothing matches, GetTargetGlob
\* returns Include = { root -> include }; for an include with matches that
\* are all excluded, it returns an empty Include, the matches being the
\* keys of Exclude.
C20_RootIncludedWhenNothingMatches ==
    [][NewDispatcherStep =>
        \A i \in 1..Len(Include) :
            /\ NothingMatches(fs, i)
                  => /\ globOut'[i].Include = RootOnly(i)
                     /\ KeysOf(globOut'[i].Exclude) = {}
            /\ (EveryMatchExcluded(fs, i) /\ ~NothingMatches(fs, i))
                  => /\ globOut'[i].Include = NoPaths
                     /\ KeysOf(globOut'[i].Exclude) =
                          {p \in AllPaths : /\ KindOf(fs, p) # "none"
                                            /\ PathMatch(Include[i].Pattern, p)}]_vars

\* C20 witness: no "*.txt" file exists at startup, so the second include
\* maps the root alone, while the first include has a match.
C20_RootAloneForSecondInclude ==
    /\ phase = "watching"
    /\ fsOps = 0
    /\ fs[<<N("n", "txt")>>] = "none" /\ fs[<<N("file", "txt")>>] = "none"
    /\ globOut[2].Include = RootOnly(2)
    /\ globOut[1].Include[<<N("d", ""), N("x", "go")>>] = 1

(***************************************************************************)
(* FinalizeConfig: uniqueness, idempotence, cycles, Downstream and Tree.   *)
(***************************************************************************)

\* FinalizeConfig leaves its validation: it returns an error or goes on
\* to collect the trees.
FinalizeConfigStep == finalizePc = "input" /\ finalizePc' # "input"

\* The Id a target has once finalized: its own, or the generated one.
FinalId(t) == IF t.Id = <<>> THEN AutoId(t.Label, Abs(t.Root)) ELSE t.Id

\* Target o lists the Id of target n in its Upstream.
IsDownstream(n, o) ==
    /\ o # n
    /\ \E k \in 1..Len(allTargets[o].Upstream) :
          allTargets[o].Upstream[k] = FinalId(allTargets[n])

\* Target o is reached from target n along the upstream relation.
Reaches(n, o) ==
    LET T == 1..Len(allTargets)
    IN  \/ IsDownstream(n, o)
        \/ \E m \in T : IsDownstream(n, m) /\ IsDownstream(m, o)
        \/ \E m, l \in T :
              IsDownstream(n, m) /\ IsDownstream(m, l) /\ IsDownstream(l, o)

Cyclic == \E n \in 1..Len(allTargets) : Reaches(n, n)

\* C21: FinalizeConfig returns an error whenever two targets have the same
\* label or the same Id (explicit, or generated from label and root), and
\* when it does not return an error from its validation, the labels and
\* the Ids of the targets are pairwise distinct.
C21_UniqueLabelsAndIds ==
    [][FinalizeConfigStep =>
         LET T == 1..Len(allTargets)
         IN  /\ (\E i, j \in T :
                   /\ i # j
                   /\ \/ allTargets[i].Label = allTargets[j].Label
                      \/ FinalId(allTargets[i]) = FinalId(allTargets[j]))
                 => finalizePc' = "error"
             /\ finalizePc' # "error" =>
                   \A i, j \in T :
                      i # j => /\ allTargets'[i].Label # allTargets'[j].Label
                               /\ allTargets'[i].Id # allTargets'[j].Id]_vars

\* FinalizeConfig succeeded on a configuration in which an Id was generated.
C21_FinalizedWithGeneratedId ==
    /\ finalizePc = "done"
    /\ pass = 1
    /\ \E n \in 1..Len(allTargets) :
          allTargets[n].Id = AutoId(allTargets[n].Label, allTargets[n].Root)

\* C22: FinalizeConfig applied to a configuration it has already finalized
\* succeeds and leaves every target as it was.
C22_SecondFinalizeIsFixedPoint ==
    (pass = 2 /\ finalizePc \in {"error", "fatal", "done"})
       => (finalizePc = "done" /\ allTargets = resolved)

\* C23: on a configuration whose upstream relation has a cycle,
\* FinalizeConfig does not succeed, does not end the process, and its
\* nested VisitDownstream calls never outnumber the targets.
C23_CycleIsResolutionError ==
    Cyclic => /\ finalizePc \notin {"done", "fatal"}
              /\ Len(visitStack) <= Len(allTargets)

EncodeToFileReturns ==
    evalG.pc = "write" /\ evalG.msg = 2 /\ evalG'.pc = "select"

\* C25: whatever the session file held before, once EncodeToFile has
\* written a Session, decoding the file yields a Session equal to the one
\* that was encoded.
C25_DecodeOfEncode ==
    [][EncodeToFileReturns =>
         /\ Decode(file').ok
         /\ Decode(file').session = NewSession(View(evalG.session))]_vars

\* C25 witness: a Session with a status was written over a longer stream,
\* whose end is still in the file, and the file decodes to that Session.
C25_WrittenOverLongerFile ==
    /\ lastSession # NoSession
    /\ lastSession.Statuses # <<>>
    /\ Len(file) > Len(FileOf(lastSession))
    /\ Decode(file).session = lastSession

\* C26: while the main command runs and after it has exited, the session
\* file is what it was at startup, or it decodes to the last Session that
\* was written completely or to the one that is being written.
C26_AllOrNothing ==
    sessPc \in {"running", "exited"} =>
      \/ lastSession = NoSession /\ file = priorFile
      \/ /\ Decode(file).ok
         /\ \/ Decode(file).session = lastSession
            \/ /\ lastSession = NoSession
               /\ Decode(file).session = Decode(priorFile).session
            \/ /\ evalG.pc = "write"
               /\ Decode(file).session = NewSession(View(evalG.session))

\* The statuses of the session file the command started on, in file order,
\* whose target is in the configuration.
KeptStatuses ==
    SelectSeq(Decode(priorFile).session.Statuses,
              LAMBDA st : st.TargetId \in Targets)

\* Those of them that were Started, Pending or Resumed.
ResumedStatuses ==
    SelectSeq(KeptStatuses,
              LAMBDA st : st.Cause \in {"started", "pending", "resumed"})

\* The "resume" requests sent to the Dispatcher so far.
ResumeSubmitted == SelectSeq(submitted, LAMBDA r : r.Cause = "resume")

\* Handler.Run has sent every startup request.
AllSubmitted ==
    /\ sessPc = "running"
    /\ Len(submitted) = Len(StartExecReq) + Len(resumeExecReq)

\* C27: after startup on a session file that holds a session, the seeded
\* status list is the file's statuses without those of unknown targets,
\* Started, Pending and Resumed shown as Resumed and the others unchanged,
\* and the "resume" requests submitted are one per Started, Pending or
\* Resumed status that was kept, for its target and with its target's tree.
C27_SeedAndResume ==
    (AllSubmitted /\ priorFile # <<>>) =>
      /\ Len(StatusList) = Len(KeptStatuses)
      /\ \A i \in 1..Len(KeptStatuses) :
           /\ StatusList[i].TargetId = KeptStatuses[i].TargetId
           /\ StatusList[i].Cause =
                IF KeptStatuses[i].Cause \in {"started", "pending", "resumed"}
                THEN "resumed" ELSE KeptStatuses[i].Cause
      /\ Len(ResumeSubmitted) = Len(ResumedStatuses)
      /\ \A i \in 1..Len(ResumedStatuses) :
           ResumeSubmitted[i] =
             [Cause |-> "resume", TargetId |-> ResumedStatuses[i].TargetId,
              Tree |-> Tree(ResumedStatuses[i].TargetId)]

\* C27 witness: the session held a Started status of a target that is gone
\* and a Pending one of target U; U is shown as Resumed and its request has
\* been submitted.
C27_PrunedAndResumed ==
    /\ AllSubmitted
    /\ priorFile = FileOf(NewSession(<<NewStatus("gone", "started"),
                                       NewStatus("U", "pending")>>))
    /\ StatusList = <<NewStatus("U", "resumed")>>
    /\ Len(ResumeSubmitted) = 1

(***************************************************************************)
(* Shutdown and the status list.                                           *)
(***************************************************************************)

\* C28: when shutdown (by the exit key or by a signal) was called while a
\* target was running, the session file recorded that target as Started
\* (or Pending or Resumed) and nothing was on its way to the file, then
\* the file still records it so when the main command has exited, and the
\* next startup runs the target again.
C28_ShutdownKeepsStarted ==
    (sessPc = "exited" /\ shut.run # "" /\ shut.calm /\ shut.saved)
      => FileResumes(shut.run)

\* No two statuses of sts are of the same target.
OnePerTarget(sts) ==
    \A i, j \in 1..Len(sts) : sts[i].TargetId = sts[j].TargetId => i = j

\* C29: the UI's status list holds at most one status per target, and so
\* does every Session written to the session file.
C29_OneStatusPerTarget ==
    /\ OnePerTarget(StatusList)
    /\ lastSession # NoSession => OnePerTarget(lastSession.Statuses)

(***************************************************************************)
(* Panics in runTarget.                                                    *)
(***************************************************************************)

\* runTarget panics in this step.
PanicStep == runner.pc = "start" /\ runner'.pc = "select"

\* An exec of runTarget ends with a Failed or Canceled status in this step.
FailStep ==
    /\ runner.pc = "exec"
    /\ Len(runLog') = Len(runLog) + 1
    /\ runLog'[Len(runLog')].c \in {"failed", "canceled"}

\* The targets of the run whose portion has begun: their targetCtx entries
\* were stored by this run.
InstalledByRun == {RunTree[i] : i \in 1..runner.ti}

\* C30: a panic in runTarget is recovered: its value is put on panicCh when
\* the channel has room, the targetCtx entries the run stored are removed,
\* and the Runner is back in its loop, where it receives the next request;
\* a run that ends Failed or Canceled leaves the Runner in its loop too.
C30_PanicRecovered ==
    [][/\ PanicStep =>
            /\ panicCh' = (IF panicCh = <<>> THEN <<"panic">> ELSE panicCh)
            /\ \A t \in InstalledByRun : targetCtx'[t] = 0
            /\ runner' = IdleRunner
            /\ done' = done
       /\ FailStep => runner' = IdleRunner /\ done' = done]_vars

\* C30 witness: a run executes a command while the value of an earlier
\* panic is still on panicCh.
C30_RunAfterPanic ==
    /\ panicCh # <<>>
    /\ runner.pc = "exec"
    /\ ~done

(***************************************************************************)
(* The debouncer's value, Ingress and the queue.                           *)
(***************************************************************************)

\* C31: when the timer of a burst has expired and its goroutine is about
\* to call f, the value it calls f with is the last value the worker
\* evaluated before the expiry.
C31_CalledWithLastValue ==
    \A g \in timerG :
        (g.pc = "f" /\ burst[g.key] # <<>> /\ Head(burst[g.key]) = g.v.id)
            => g.v.id = burst[g.key][Len(burst[g.key])]

\* C32: Ingress is never left waiting for the queue's lock: whatever the
\* queue holds, the replacement pass for a request ends and Ingress goes on
\* to the debouncer or the queue and back to its select.
C32_IngressNeverBlocked ==
    /\ ingress.pc # "blocked"
    /\ ingress.pc = "replace" =>
         ~IterKeepsLock(queue, FirstMatch(queue, ingress.req.target))

\* The requests Ingress has received and that are still somewhere in the
\* Dispatcher: held by Ingress, in a debouncer, queued, or dequeued.
Received ==
    (IF ingress.pc \in {"replace", "debounce", "blocked"}
     THEN {ingress.req} ELSE {})
      \cup UNION {Range(deb[k].timerEval) : k \in DebounceKeys}
      \cup {g.v : g \in timerG}
      \cup Range(queue) \cup senders \cup Range(runTargetCh)

\* C33: when the Runner takes a dequeued request from runTargetCh and
\* begins its run, Ingress has not received a newer request for the same
\* target.
C33_StaleRequestNotRun ==
    [][RunnerRecvStep =>
         \A r \in Received :
            ~(r.target = Head(runTargetCh).target /\ r.id > Head(runTargetCh).id)]_vars

(***************************************************************************)
(* targetCtx.                                                              *)
(***************************************************************************)

\* C34: while a later target of the tree executes, targetCtx holds no entry
\* for the targets of the tree whose handlers have all finished.
C34_EntryRemovedAfterPortion ==
    (runner.pc \in {"start", "exec", "cooldown"} /\ runner.ti > 1)
        => \A i \in 1..(runner.ti - 1) : targetCtx[RunTree[i]] = 0

(***************************************************************************)
(* The queue's entries per target.                                         *)
(***************************************************************************)

\* The positions of the queue that hold a request of target t.
QueuedFor(t) == {i \in 1..Len(queue) : queue[i].target = t}

\* The targets with requests that go through a debouncer (req.Debounce > 0).
DebouncedTargets ==
    {r.target : r \in {w \in WatcherReqs \cup StartReqs : w.debounce > 0}}

\* C35 (as claimed): the queue holds at most one request per target.
C35_OneQueuedPerTarget ==
    \A t \in Targets : Cardinality(QueuedFor(t)) <= 1

\* C35 (amended): the queue holds at most one request of a target whose
\* requests are not debounced: Ingress appends such a request itself, right
\* after the pass that removed the target's queued request.
C35_OneQueuedPerUndebouncedTarget ==
    \A t \in Targets \ DebouncedTargets : Cardinality(QueuedFor(t)) <= 1

\* C35 witness: request 1 of the undebounced target X was queued, has not
\* been dequeued, and request 2 of X has taken its place in the queue.
C35_SecondReplacedFirst ==
    /\ queue = <<[id |-> 2, target |-> "X", path |-> "", debounce |-> 0]>>
    /\ 1 \in pendingIds
    /\ 1 \notin started
    /\ 1 \notin Range(inflight)

(***************************************************************************)
(* The version of a written Session.                                       *)
(***************************************************************************)

\* boone.SessionVersion.
SessionVersion == 1

\* C36: every Session that EncodeToFile has written carries Version =
\* SessionVersion.
C36_WrittenSessionIsTagged ==
    lastSession # NoSession => lastSession.Version = SessionVersion

(***************************************************************************)
(* Ingress and a run of unrelated targets.                                 *)
(***************************************************************************)

\* No target of t's tree is a target of the tree being run.
Unrelated(t) == Range(Tree(t)) \cap Range(RunTree) = {}

\* C37: when Ingress receives a request none of whose tree's targets is in
\* the tree being run, no context is cancelled, the running exec keeps its
\* outcome and targetCtx keeps its entries.
C37_UnrelatedRequestLeavesRun ==
    [][(IngressRecvStep /\ InRun /\ Unrelated(ingress'.req.target))
         => /\ ctxDone' = ctxDone
            /\ cmdErr' = cmdErr
            /\ targetCtx' = targetCtx]_vars

\* C37 witness: Ingress has received request 2, for X, while the run of
\* request 1, for U, is in an exec that no cancellation has reached.
C37_ReceivedDuringUnrelatedRun ==
    /\ ingress.pc = "replace"
    /\ ingress.req.target = "X"
    /\ ingress.req.id = 2
    /\ runner.pc = "exec"
    /\ runner.req.target = "U"
    /\ targetCtx["U"] = TreeCtx(runner.req)
    /\ TreeCtx(runner.req) \notin ctxDone
    /\ cmdErr = "none"

(***************************************************************************)
(* The entries of targetCtx and the run in progress.                       *)
(***************************************************************************)

\* C38: while no runTarget call is in progress targetCtx has no entry, and
\* during a call every entry is of a target of the tree being run and holds
\* that run's treeCtx and treeCancel.
C38_EntriesOfTheRunningTree ==
    /\ ~InRun => CtxEntries = {}
    /\ InRun => \A t \in CtxEntries :
                    /\ t \in InstalledByRun
                    /\ targetCtx[t] = TreeCtx(runner.req)

\* C38 witness: the run of tree [U, D] was cancelled in D's portion and
\* has returned; the Runner is in its loop and targetCtx is empty.
C38_EmptyAfterCanceledTree ==
    /\ runner = IdleRunner
    /\ CtxEntries = {}
    /\ runLog # <<>>
    /\ runLog[Len(runLog)].c = "canceled"
    /\ runLog[Len(runLog)].t = "D"
    /\ \E i \in 1..Len(runLog) : runLog[i] = Status("targetpass", "U", 0, 0, "")

(***************************************************************************)
(* The targets of a Tree.                                                  *)
(***************************************************************************)

\* No target lists the same Id twice in its Upstream.
UpstreamOnce ==
    \A n \in 1..Len(allTargets) :
      \A i, j \in 1..Len(allTargets[n].Upstream) :
         allTargets[n].Upstream[i] = allTargets[n].Upstream[j] => i = j

\* C39: when FinalizeConfig has returned for an upstream graph without a
\* cycle, in which no target names an upstream twice, no Tree lists a
\* target Id twice.
C39_NoTargetTwiceInTree ==
    (finalizePc = "done" /\ ~Cyclic /\ UpstreamOnce) =>
      \A n \in 1..Len(allTargets) :
        \A i, j \in 1..Len(allTargets[n].Tree) :
           allTargets[n].Tree[i].Id = allTargets[n].Tree[j].Id => i = j

(***************************************************************************)
(* A second shutdown.                                                      *)
(***************************************************************************)

\* C40: a shutdown() after the first returns without panicking: the main
\* command never dies of a second close of the Dispatcher's done channel.
C40_SecondStopReturns == sessPc # "closepanic"

====
